---- MODULE Spec2Model ----
(***************************************************************************)
(* Model of the scripts of ai-news-audio-feed:                             *)
(*   scripts/update_feed.py  (adds an <item> for the latest MP3)           *)
(*   scripts/nudge_feed.py   (bumps lastBuildDate and the first pubDate)   *)
(*   scripts/compose_transcript.py  (normalizes the brief, paragraphs)     *)
(*   scripts/generate_brief.py      (writes the JSON and the transcript)   *)
(*   scripts/build_transcript_payload.py  (reads the transcript back and   *)
(*                                         renders it)                     *)
(* The state is what the scripts share between runs: feed.xml, the audio   *)
(* directory with its MP3, JSON and transcript files, and the wall clock.  *)
(*                                                                         *)
(* Text is modelled as a sequence of one-character strings, so that the    *)
(* string operations of the scripts (glob, regex, replace, strptime,       *)
(* strftime) are computed and not assumed.  Python's None is the           *)
(* one-element sequence <<"None">>, which no text equals.                  *)
(***************************************************************************)
EXTENDS Integers, Sequences, FiniteSets, TLC

\* ------------------------------------------------------------------ bounds
\* script runs (update_feed, nudge_feed) in one behaviour
MaxRuns == 3
\* MP3 files written into the audio directory in one behaviour
MaxWrites == 2

\* ------------------------------------------------------------ text helpers
None == <<"None">>

DigitChars == <<"0", "1", "2", "3", "4", "5", "6", "7", "8", "9">>

IsDigit(c) == \E i \in 1..10 : DigitChars[i] = c

DigitVal(c) == (CHOOSE i \in 1..10 : DigitChars[i] = c) - 1

AllDigits(s) == \A i \in 1..Len(s) : IsDigit(s[i])

\* value of a run of decimal digits (int() of a regex group)
RECURSIVE NumVal(_)
NumVal(s) ==
    IF s = <<>> THEN 0
    ELSE 10 * NumVal(SubSeq(s, 1, Len(s) - 1)) + DigitVal(s[Len(s)])

\* "%02d" and "%04d"
TwoDigits(n) == <<DigitChars[((n \div 10) % 10) + 1], DigitChars[(n % 10) + 1]>>

FourDigits(n) == TwoDigits(n \div 100) \o TwoDigits(n % 100)

\* str(n) for n >= 0
RECURSIVE StrOfNat(_)
StrOfNat(n) ==
    IF n < 10 THEN <<DigitChars[n + 1]>>
    ELSE StrOfNat(n \div 10) \o <<DigitChars[(n % 10) + 1]>>

EndsWith(s, suf) ==
    /\ Len(s) >= Len(suf)
    /\ SubSeq(s, Len(s) - Len(suf) + 1, Len(s)) = suf

StartsWith(s, pre) ==
    /\ Len(s) >= Len(pre)
    /\ SubSeq(s, 1, Len(pre)) = pre

\* str.rfind("."): 0-based index of the last dot, -1 when there is none
RFindDot(s) ==
    LET dots == {i \in 1..Len(s) : s[i] = "."}
    IN  IF dots = {} THEN -1
        ELSE (CHOOSE i \in dots : \A j \in dots : j <= i) - 1

\* pathlib PurePath.stem: the name without its last suffix; a leading dot
\* or a trailing dot is no suffix
Stem(name) ==
    LET i == RFindDot(name)
    IN  IF 0 < i /\ i < Len(name) - 1 THEN SubSeq(name, 1, i) ELSE name

MP3_EXT == <<".", "m", "p", "3">>

\* str.replace(".mp3", ""): every occurrence, left to right
RECURSIVE RemoveMp3(_)
RemoveMp3(s) ==
    IF s = <<>> THEN <<>>
    ELSE IF StartsWith(s, MP3_EXT)
         THEN RemoveMp3(SubSeq(s, Len(MP3_EXT) + 1, Len(s)))
         ELSE <<s[1]>> \o RemoveMp3(SubSeq(s, 2, Len(s)))

\* glob "*.mp3"
MatchesStarMp3(name) == EndsWith(name, MP3_EXT)

\* glob "*{stamp}*.mp3" (the stamps of the model hold no glob metacharacter)
MatchesStampMp3(name, stamp) ==
    /\ EndsWith(name, MP3_EXT)
    /\ \E i \in 1..(Len(name) - Len(MP3_EXT) - Len(stamp) + 1) :
          SubSeq(name, i, i + Len(stamp) - 1) = stamp

\* re.search(r"(\d{8})$", name): the trailing eight digits, or None
TrailingEightDigits(name) ==
    IF Len(name) >= 8 /\ AllDigits(SubSeq(name, Len(name) - 7, Len(name)))
    THEN SubSeq(name, Len(name) - 7, Len(name))
    ELSE None

\* ------------------------------------------------------------------- dates
IsLeap(y) == (y % 4 = 0 /\ y % 100 # 0) \/ y % 400 = 0

DaysInMonth(y, m) ==
    IF m = 2 THEN (IF IsLeap(y) THEN 29 ELSE 28)
    ELSE IF m \in {4, 6, 9, 11} THEN 30 ELSE 31

CharIn(s, i, set) == i <= Len(s) /\ s[i] \in set

\* the alternatives of %m, "1[0-2]|0[1-9]|[1-9]", that match at position i,
\* as match lengths in the order the regex tries them
MonthMatchLens(s, i) ==
    (IF \/ CharIn(s, i, {"1"}) /\ CharIn(s, i + 1, {"0", "1", "2"})
        \/ CharIn(s, i, {"0"}) /\ CharIn(s, i + 1, {"1", "2", "3", "4", "5", "6", "7", "8", "9"})
     THEN <<2>> ELSE <<>>)
    \o
    (IF CharIn(s, i, {"1", "2", "3", "4", "5", "6", "7", "8", "9"}) THEN <<1>> ELSE <<>>)

\* the first alternative of %d, "3[0-1]|[1-2]\d|0[1-9]|[1-9]| [1-9]", that
\* matches at position i, as a match length; 0 when none matches
DayMatchLen(s, i) ==
    IF \/ CharIn(s, i, {"3"}) /\ CharIn(s, i + 1, {"0", "1"})
       \/ CharIn(s, i, {"1", "2"}) /\ i + 1 <= Len(s) /\ IsDigit(s[i + 1])
       \/ CharIn(s, i, {"0"}) /\ CharIn(s, i + 1, {"1", "2", "3", "4", "5", "6", "7", "8", "9"})
    THEN 2
    ELSE IF CharIn(s, i, {"1", "2", "3", "4", "5", "6", "7", "8", "9"}) THEN 1
    ELSE IF CharIn(s, i, {" "}) /\ CharIn(s, i + 1, {"1", "2", "3", "4", "5", "6", "7", "8", "9"})
    THEN 2
    ELSE 0

NoDate == [ok |-> FALSE, y |-> 0, m |-> 0, d |-> 0]

\* datetime.datetime.strptime(stamp, "%Y%m%d"); ok = FALSE where Python
\* raises (no match, unconverted data, or a day the month does not have)
Strptime(s) ==
    IF ~(Len(s) >= 4 /\ AllDigits(SubSeq(s, 1, 4))) THEN NoDate
    ELSE
      LET mls  == MonthMatchLens(s, 5)
          good == {k \in 1..Len(mls) : DayMatchLen(s, 5 + mls[k]) > 0}
      IN  IF good = {} THEN NoDate
          ELSE
            LET k  == CHOOSE k \in good : \A j \in good : k <= j
                ml == mls[k]
                dl == DayMatchLen(s, 5 + ml)
                y  == NumVal(SubSeq(s, 1, 4))
                m  == NumVal(SubSeq(s, 5, 4 + ml))
                d  == IF s[5 + ml] = " " THEN DigitVal(s[6 + ml])
                      ELSE NumVal(SubSeq(s, 5 + ml, 4 + ml + dl))
            IN  IF 4 + ml + dl # Len(s) THEN NoDate
                ELSE IF y < 1 \/ d > DaysInMonth(y, m) THEN NoDate
                ELSE [ok |-> TRUE, y |-> y, m |-> m, d |-> d]

DayNames == <<"Sun", "Mon", "Tue", "Wed", "Thu", "Fri", "Sat">>

MonthNames == <<"Jan", "Feb", "Mar", "Apr", "May", "Jun",
                "Jul", "Aug", "Sep", "Oct", "Nov", "Dec">>

MonthOffsets == <<0, 3, 2, 5, 0, 3, 5, 1, 4, 6, 2, 4>>

\* day of the week, 0 = Sunday (what %a prints)
Weekday(y, m, d) ==
    LET yy == IF m < 3 THEN y - 1 ELSE y
    IN  (yy + (yy \div 4) - (yy \div 100) + (yy \div 400) + MonthOffsets[m] + d) % 7

\* strftime("%a, %d %b %Y %H:%M:%S GMT") of a datetime of year 1000..9999,
\* secs seconds after midnight; email.utils.format_datetime(usegmt=True)
\* prints the same text
Rfc2822(y, m, d, secs) ==
    <<DayNames[Weekday(y, m, d) + 1], ",", " ">> \o TwoDigits(d)
        \o <<" ", MonthNames[m], " ">> \o FourDigits(y) \o <<" ">>
        \o TwoDigits(secs \div 3600) \o <<":">>
        \o TwoDigits((secs \div 60) % 60) \o <<":">>
        \o TwoDigits(secs % 60) \o <<" ", "GMT">>

\* ------------------------------------------------------------- environment
AI_NEWS == <<"a", "i", "_", "n", "e", "w", "s", "_">>

Stamp0101 == <<"2", "0", "2", "5", "0", "1", "0", "1">>

Stamp0102 == <<"2", "0", "2", "5", "0", "1", "0", "2">>

\* the files the audio directory may hold: two briefs named as
\* generate_brief names them, a file without a date and a file named ".mp3"
FileNames ==
    { AI_NEWS \o Stamp0101 \o MP3_EXT,
      AI_NEWS \o Stamp0102 \o MP3_EXT,
      <<"e", "p">> \o MP3_EXT,
      MP3_EXT }

\* sizes in bytes of the MP3 files: empty or not (the script only copies
\* the size into the enclosure, it never branches on it)
FileSizes == {0, 1}

\* values of the STAMP environment variable: unset, a date, other text
StampEnvs == {None, Stamp0102, <<"w", "3", "8">>}

\* the day the model's wall clock starts at (midnight UTC)
ClockStart == [y |-> 2025, m |-> 1, d |-> 2]

BASE_URL == "https://kyledeguire.github.io/ai-news-audio-feed"

NoFile == [present |-> FALSE, size |-> 0, mtime |-> 0]

\* ------------------------------------------------------------- JSON values
\* A JSON value as json.loads gives it, by its Python type: t is "null",
\* "bool", "int", "str", "list" or "dict"; n is the number (1 or 0 for a
\* bool, the length for a list or a dict), s the text of a str.  A key that
\* is absent reads as null (dict.get).
JNull == [t |-> "null", n |-> 0, s |-> <<>>]

JBool(b) == [t |-> "bool", n |-> IF b THEN 1 ELSE 0, s |-> <<>>]

JInt(n) == [t |-> "int", n |-> n, s |-> <<>>]

JStr(s) == [t |-> "str", n |-> 0, s |-> s]

JList(n) == [t |-> "list", n |-> n, s |-> <<>>]

\* bool(v)
Truthy(v) ==
    CASE v.t = "null" -> FALSE
      [] v.t = "str"  -> v.s # <<>>
      [] OTHER        -> v.n # 0

\* the value of a paragraph's "sources" key: null, a list of values, a
\* number or a str
SrcNull == [t |-> "null", n |-> 0, s |-> <<>>, items |-> <<>>]

SrcList(items) == [t |-> "list", n |-> Len(items), s |-> <<>>, items |-> items]

SrcInt(n) == [t |-> "int", n |-> n, s |-> <<>>, items |-> <<>>]

SrcStr(s) == [t |-> "str", n |-> 0, s |-> s, items |-> <<>>]

\* an entry of "footnotes": a dict with the keys id, title, url, or
\* something that is no dict
Fn(id, title, url) == [dict |-> TRUE, id |-> id, title |-> title, url |-> url]

NotADict == [dict |-> FALSE, id |-> JNull, title |-> JNull, url |-> JNull]

\* a sentence object {"text": ..., "sources": [...]}
Sentence(text, sources) == [text |-> text, sources |-> sources]

\* an entry of "paragraphs": a str, a dict {text, sources}, a dict
\* {sentences: [...]}, or something else
ParaStr(s) ==
    [kind |-> "str", text |-> JStr(s), sources |-> SrcNull, sentences |-> <<>>]

ParaText(text, sources) ==
    [kind |-> "dict", text |-> text, sources |-> sources, sentences |-> <<>>]

ParaSentences(sentences) ==
    [kind |-> "dict", text |-> JNull, sources |-> SrcNull, sentences |-> sentences]

ParaOther ==
    [kind |-> "other", text |-> JNull, sources |-> SrcNull, sentences |-> <<>>]

\* an entry of "sections": a str, a dict {title, paragraphs}, or something
\* else
SecStr(s) == [kind |-> "str", title |-> JStr(s), paragraphs |-> <<>>]

SecDict(title, paragraphs) ==
    [kind |-> "dict", title |-> title, paragraphs |-> paragraphs]

SecOther == [kind |-> "other", title |-> JNull, paragraphs |-> <<>>]

\* the JSON file: its top level is an object with the keys spoken,
\* footnotes, sections, or a list, or a scalar; or there is no file
JsonObject(spoken, footnotes, sections) ==
    [top |-> "dict", spoken |-> spoken, footnotes |-> footnotes,
     sections |-> sections]

JsonList == [top |-> "list", spoken |-> JNull, footnotes |-> <<>>, sections |-> <<>>]

JsonScalar == [top |-> "scalar", spoken |-> JNull, footnotes |-> <<>>, sections |-> <<>>]

NoJson == [top |-> "nofile", spoken |-> JNull, footnotes |-> <<>>, sections |-> <<>>]

\* what normalize_from_json returns, or that it raised
NoNorm == [raised |-> FALSE, sections |-> <<>>, footnotes |-> <<>>, spoken |-> <<>>]

\* no transcript script has run
NotBuilt ==
    [op |-> "none", exit |-> 0, norm |-> NoNorm, paras |-> <<>>,
     sections |-> <<>>, footnotes |-> <<>>, sources |-> <<>>,
     html |-> <<>>, docx |-> <<>>]

\* ------------------------------------------------------------------- state
VARIABLES
    feedExists,   \* feed.xml exists
    feed,         \* feed.xml as parsed: [channel, lastBuildDate, items]
    audio,        \* audio/: file name -> [present, size, mtime]
    last,         \* the last step: script, exit status, stamp and MP3 used
    inserted,     \* history: the guids update_feed inserted, in run order
    runs,         \* script runs so far; also the wall clock
    writes,       \* MP3 files written so far; the mtime of the next one
    json,         \* audio/ai_news_*.json as json.loads reads it
    txt,          \* audio/ai_news_*.txt, its text (None: no such file)
    built,        \* what the last transcript script run has built
    race          \* runs of update_feed.py that are under way, step by step

vars ==
    <<feedExists, feed, audio, last, inserted, runs, writes, json, txt, built, race>>

\* the wall clock in seconds after ClockStart: every script run takes place
\* one second after the run before it
now == runs

\* ------------------------------------------------------- update_feed.py
rfc2822_now_gmt(clock) == Rfc2822(ClockStart.y, ClockStart.m, ClockStart.d, clock)

\* what ElementTree gives back for a text it wrote: an element with empty
\* text is written self-closing and parses with text None
XmlText(s) == IF s = <<>> THEN None ELSE s

\* the possible values of sorted(files, key=getmtime, reverse=True)[0]:
\* a file of maximal mtime (files of equal mtime come in directory order)
NewestOf(dir, files) ==
    {f \in files : \A g \in files : dir[g].mtime <= dir[f].mtime}

GlobStarMp3(dir) == {f \in DOMAIN dir : dir[f].present /\ MatchesStarMp3(f)}

GlobStampMp3(dir, stamp) ==
    {f \in DOMAIN dir : dir[f].present /\ MatchesStampMp3(f, stamp)}

\* mp3s[0] of load_stamp and of the fallback of find_latest_mp3_by_stamp
NewestMp3(dir) ==
    IF GlobStarMp3(dir) = {} THEN {None} ELSE NewestOf(dir, GlobStarMp3(dir))

\* load_stamp, given the value of STAMP and the newest MP3 (or None)
load_stamp(env, newest) ==
    IF env # None /\ env # <<>> THEN env
    ELSE IF newest # None THEN TrailingEightDigits(Stem(newest))
    ELSE None

\* the possible results of find_latest_mp3_by_stamp (a set: ties in mtime)
find_latest_mp3_by_stamp(dir, stamp) ==
    IF stamp # None /\ stamp # <<>> /\ GlobStampMp3(dir, stamp) # {}
    THEN NewestOf(dir, GlobStampMp3(dir, stamp))
    ELSE NewestMp3(dir)

TITLE_PREFIX == "AI Executive Brief - "

nice_title_from_stamp(stamp) ==
    LET d == Strptime(stamp)
    IN  IF d.ok
        THEN <<TITLE_PREFIX>> \o TwoDigits(d.d) \o <<" ", MonthNames[d.m], ",", " ">>
                 \o FourDigits(d.y)
        ELSE <<TITLE_PREFIX>> \o stamp

pretty_pubdate_from_stamp(stamp, clock) ==
    LET d == Strptime(stamp)
    IN  IF d.ok THEN Rfc2822(d.y, d.m, d.d, 0) ELSE rfc2822_now_gmt(clock)

\* the feed create_proper_feed writes: channel metadata and no item
create_proper_feed(clock) ==
    [channel |-> TRUE, lastBuildDate |-> rfc2822_now_gmt(clock), items |-> <<>>]

\* the <item> main constructs, as it reads back from the written file
NewItem(stamp, mp3, size, clock) ==
    [ title       |-> nice_title_from_stamp(stamp),
      description |-> "Executive Briefing: AI Market Trends and Strategic Insights",
      link        |-> <<BASE_URL, "/">>,
      url         |-> <<BASE_URL, "/audio/">> \o mp3,
      length      |-> StrOfNat(size),
      type        |-> "audio/mpeg",
      pubDate     |-> pretty_pubdate_from_stamp(stamp, clock),
      guid        |-> XmlText(RemoveMp3(mp3)),
      isPermaLink |-> "false",
      explicit    |-> "false",
      episodeType |-> "full" ]

\* existing_guids: the guid texts of the parsed items
ExistingGuids(doc) == {doc.items[i].guid : i \in 1..Len(doc.items)}

\* faulty variants of InsertItem: the item appended after the last item,
\* inserted after the first item, or written in place of the item list
InsertItemAtEnd(items, item) == Append(items, item)

InsertItemAfterFirst(items, item) ==
    IF items = <<>> THEN <<item>>
    ELSE <<items[1], item>> \o Tail(items)

InsertItemAlone(items, item) == <<item>>

\* channel.insert(index of the first item, item), or append when no item
InsertItem(items, item) == <<item>> \o items

\* faulty variant of Upsert: an existing guid's item is overwritten in place
UpsertReplacing(doc, item, guid_text, clock) ==
    [doc EXCEPT
       !.items = IF guid_text \in ExistingGuids(doc)
                 THEN [i \in 1..Len(doc.items) |->
                         IF doc.items[i].guid = guid_text THEN item
                         ELSE doc.items[i]]
                 ELSE InsertItem(doc.items, item),
       !.lastBuildDate = rfc2822_now_gmt(clock)]

\* the body of main from the guid check on: skip an existing guid, else
\* insert the new item before the first one; lastBuildDate is set to now
\* on both paths.  guid_text is the text before it is written.
Upsert(doc, item, guid_text, clock) ==
    IF guid_text \in ExistingGuids(doc)
    THEN [doc EXCEPT !.lastBuildDate = rfc2822_now_gmt(clock)]
    ELSE [doc EXCEPT !.items = InsertItem(doc.items, item),
                     !.lastBuildDate = rfc2822_now_gmt(clock)]

\* the result of main on the feed doc0 that ensure_feed_exists left, for
\* the stamp and the MP3 the run found
update_feed_main(doc0, stamp, mp3, dir, clock) ==
    IF stamp = None \/ stamp = <<>>
    THEN [exit |-> 1, doc |-> doc0, appended |-> FALSE, guid |-> None]
    ELSE IF mp3 = None
    THEN [exit |-> 1, doc |-> doc0, appended |-> FALSE, guid |-> None]
    ELSE LET guid_text == RemoveMp3(mp3)
             item == NewItem(stamp, mp3, dir[mp3].size, clock)
         IN  IF ~doc0.channel
             THEN [exit |-> 1, doc |-> doc0, appended |-> FALSE, guid |-> guid_text]
             ELSE [exit |-> 0,
                   doc |-> Upsert(doc0, item, guid_text, clock),
                   appended |-> guid_text \notin ExistingGuids(doc0),
                   guid |-> guid_text]

ensure_feed_exists(exists, doc, clock) ==
    IF exists THEN doc ELSE create_proper_feed(clock)

\* -------------------------------------------------------- nudge_feed.py
httpdate(clock) == Rfc2822(ClockStart.y, ClockStart.m, ClockStart.d, clock)

\* faulty variant of bump_first_item_pubdate: every item is bumped (count=0)
bump_every_item_pubdate(items, text) ==
    [i \in 1..Len(items) |-> [items[i] EXCEPT !.pubDate = text]]

\* re.subn(r"<item>.*?</item>", bump_first_item_pubdate, text, count=1):
\* the first pubDate of the first item is replaced
bump_first_item_pubdate(items, text) == [items EXCEPT ![1].pubDate = text]

\* the result of main: exit status and the feed file afterwards
nudge_feed_main(exists, doc, clock) ==
    IF ~exists THEN [exit |-> 1, doc |-> doc]
    ELSE IF Len(doc.items) = 0 THEN [exit |-> 0, doc |-> doc]
    ELSE [exit |-> 0,
          doc  |-> [doc EXCEPT
                      !.lastBuildDate =
                          IF doc.lastBuildDate # None \/ doc.channel
                          THEN httpdate(clock) ELSE None,
                      !.items = bump_first_item_pubdate(doc.items, httpdate(clock))]]

\* ----------------------------------------------------------------- actions
NoFeed == [channel |-> FALSE, lastBuildDate |-> None, items |-> <<>>]

Idle == [op |-> "none", exit |-> 0, stamp |-> None, mp3 |-> None, appended |-> FALSE]

\* the two processes of update_feed.py that may run at the same time
Racers == {1, 2}

\* one process: pc is where it stands in main ("none": it does not run);
\* tree is the feed it parsed; started, parsed and wrote are the times of
\* its first step, of ET.parse and of tree.write (0: not yet)
IdleRun ==
    [pc |-> "none", env |-> None, stamp |-> None, mp3 |-> None, tree |-> NoFeed,
     exit |-> 0, started |-> 0, parsed |-> 0, wrote |-> 0]

\* no process under way; clock counts the steps taken
NoRace == [clock |-> 0, run |-> [r \in Racers |-> IdleRun]]

\* before any run: no audio file; feed.xml is absent or is a hand-made
\* file without a <channel>
Init ==
    /\ feedExists \in BOOLEAN
    /\ feed = NoFeed
    /\ audio = [f \in FileNames |-> NoFile]
    /\ last = Idle
    /\ inserted = <<>>
    /\ runs = 0
    /\ writes = 0
    /\ json = NoJson
    /\ txt = None
    /\ built = NotBuilt
    /\ race = NoRace

\* an MP3 is written into audio/ (generate_brief's TTS step, or by hand);
\* it becomes the newest file
WriteAudio(name, size) ==
    /\ writes < MaxWrites
    /\ writes' = writes + 1
    /\ audio' = [audio EXCEPT ![name] =
                    [present |-> TRUE, size |-> size, mtime |-> writes + 1]]
    /\ last' = Idle
    /\ UNCHANGED <<feedExists, feed, inserted, runs, json, txt, built, race>>

\* one run of update_feed.py with STAMP = env
UpdateFeed(env) ==
    /\ runs < MaxRuns
    /\ runs' = runs + 1
    /\ \E newest \in NewestMp3(audio) :
         LET stamp == load_stamp(env, newest)
         IN  \E mp3 \in (IF stamp = None THEN {None}
                         ELSE find_latest_mp3_by_stamp(audio, stamp)) :
               LET doc0 == ensure_feed_exists(feedExists, feed, now)
                   r    == update_feed_main(doc0, stamp, mp3, audio, now)
               IN  /\ feedExists' = TRUE
                   /\ feed' = r.doc
                   /\ last' = [op |-> "update_feed", exit |-> r.exit,
                               stamp |-> stamp, mp3 |-> mp3,
                               appended |-> r.appended]
                   /\ inserted' = IF r.appended
                                  THEN Append(inserted, XmlText(r.guid))
                                  ELSE inserted
    /\ UNCHANGED <<audio, writes, json, txt, built, race>>

\* one run of nudge_feed.py
NudgeFeed ==
    /\ runs < MaxRuns
    /\ runs' = runs + 1
    /\ LET r == nudge_feed_main(feedExists, feed, now)
       IN  /\ feed' = r.doc
           /\ last' = [Idle EXCEPT !.op = "nudge_feed", !.exit = r.exit]
    /\ UNCHANGED <<feedExists, audio, inserted, writes, json, txt, built, race>>

Next ==
    \/ \E name \in FileNames, size \in FileSizes : WriteAudio(name, size)
    \/ \E env \in StampEnvs : UpdateFeed(env)
    \/ NudgeFeed

Spec == Init /\ [][Next]_vars

\* ------------------------------------ update_feed.py, two runs at a time
\* main takes no lock on feed.xml.  A run is four steps, each one access
\* to the file: the test of ensure_feed_exists, create_proper_feed when the
\* test found no file, ET.parse, and tree.write.

\* the audio directory of the two runs: the brief of 2 January, and after
\* it possibly a newer file
RaceAudios ==
    {[f \in FileNames |->
        IF f = AI_NEWS \o Stamp0102 \o MP3_EXT
        THEN [present |-> TRUE, size |-> 1, mtime |-> 1]
        ELSE IF f = newer THEN [present |-> TRUE, size |-> 1, mtime |-> 2]
        ELSE NoFile] : newer \in FileNames}

\* feed.xml before the two runs: absent, as create_proper_feed wrote it, or
\* with the item of the brief of 1 January
RaceFeeds ==
    {[exists |-> FALSE, doc |-> NoFeed],
     [exists |-> TRUE, doc |-> create_proper_feed(0)],
     [exists |-> TRUE,
      doc |-> [create_proper_feed(0) EXCEPT
                 !.items = <<NewItem(Stamp0101, AI_NEWS \o Stamp0101 \o MP3_EXT, 1, 0)>>]]}

InitRace ==
    /\ \E f \in RaceFeeds : feedExists = f.exists /\ feed = f.doc
    /\ audio \in RaceAudios
    /\ last = Idle
    /\ inserted = <<>>
    /\ runs = 0
    /\ writes = 0
    /\ json = NoJson
    /\ txt = None
    /\ built = NotBuilt
    /\ \E env \in [Racers -> StampEnvs] :
          race = [clock |-> 0,
                  run   |-> [r \in Racers |-> [IdleRun EXCEPT !.pc = "start",
                                                              !.env = env[r]]]]

\* the clock after the step being taken
tick == race.clock + 1

\* what a step leaves alone
raceFixed == <<audio, last, inserted, runs, writes, json, txt, built>>

\* ensure_feed_exists, the test: if not FEED_PATH.exists()
CheckFeedExists(r) ==
    /\ race.run[r].pc = "start"
    /\ race' = [clock |-> tick,
                run   |-> [race.run EXCEPT
                             ![r].pc = IF feedExists THEN "parse" ELSE "create",
                             ![r].started = tick]]
    /\ UNCHANGED <<feedExists, feed>>
    /\ UNCHANGED raceFixed

\* ensure_feed_exists, create_proper_feed: the file is written anew
CreateFeed(r) ==
    /\ race.run[r].pc = "create"
    /\ feedExists' = TRUE
    /\ feed' = create_proper_feed(tick)
    /\ race' = [clock |-> tick, run |-> [race.run EXCEPT ![r].pc = "parse"]]
    /\ UNCHANGED raceFixed

\* load_stamp, find_latest_mp3_by_stamp and ET.parse: the run leaves with
\* exit status 1 without stamp, MP3 or <channel>, else it holds the tree
ParseFeed(r) ==
    /\ race.run[r].pc = "parse"
    /\ \E newest \in NewestMp3(audio) :
         LET stamp == load_stamp(race.run[r].env, newest)
         IN  \E mp3 \in (IF stamp = None THEN {None}
                         ELSE find_latest_mp3_by_stamp(audio, stamp)) :
               LET fails == stamp = None \/ stamp = <<>> \/ mp3 = None
                            \/ ~feed.channel
               IN  race' = [clock |-> tick,
                            run   |-> [race.run EXCEPT
                                         ![r].pc = IF fails THEN "done" ELSE "write",
                                         ![r].exit = IF fails THEN 1 ELSE 0,
                                         ![r].stamp = stamp,
                                         ![r].mp3 = mp3,
                                         ![r].tree = IF fails THEN NoFeed ELSE feed,
                                         ![r].parsed = IF fails THEN 0 ELSE tick]]
    /\ UNCHANGED <<feedExists, feed>>
    /\ UNCHANGED raceFixed

\* faulty variant of WrittenDoc: the upsert is made on the file as it is at
\* the time of the write, as under a lock held from parse to write
WrittenDocOfFile(tree, file, item, guid_text, clock) ==
    Upsert(file, item, guid_text, clock)

\* what tree.write puts into feed.xml: the tree the run parsed, with its
\* upsert, whatever the file holds by now
WrittenDoc(tree, file, item, guid_text, clock) ==
    Upsert(tree, item, guid_text, clock)

\* the guid check, the new item and tree.write
WriteFeed(r) ==
    /\ race.run[r].pc = "write"
    /\ LET me   == race.run[r]
           item == NewItem(me.stamp, me.mp3, audio[me.mp3].size, tick)
       IN  feed' = WrittenDoc(me.tree, feed, item, RemoveMp3(me.mp3), tick)
    /\ race' = [clock |-> tick,
                run   |-> [race.run EXCEPT ![r].pc = "done", ![r].wrote = tick]]
    /\ UNCHANGED feedExists
    /\ UNCHANGED raceFixed

NextRace ==
    \E r \in Racers :
        \/ CheckFeedExists(r)
        \/ CreateFeed(r)
        \/ ParseFeed(r)
        \/ WriteFeed(r)

SpecRace == InitRace /\ [][NextRace]_vars

\* ------------------------------------------------------------ Python text
\* the character SUPERSCRIPT TWO: str.isdigit() is true of it, int() refuses it
SUP2 == "U+00B2"

\* the character EM DASH
EM_DASH == "U+2014"

\* \s, and what str.strip() removes
IsSpace(c) == c \in {" ", "\t", "\n"}

\* [ \t]
IsBlank(c) == c \in {" ", "\t"}

UpperChars ==
    <<"A", "B", "C", "D", "E", "F", "G", "H", "I", "J", "K", "L", "M",
      "N", "O", "P", "Q", "R", "S", "T", "U", "V", "W", "X", "Y", "Z">>

LowerChars ==
    <<"a", "b", "c", "d", "e", "f", "g", "h", "i", "j", "k", "l", "m",
      "n", "o", "p", "q", "r", "s", "t", "u", "v", "w", "x", "y", "z">>

\* [A-Z]
IsUpper(c) == \E i \in 1..26 : UpperChars[i] = c

ToLower(c) ==
    IF IsUpper(c) THEN LowerChars[CHOOSE i \in 1..26 : UpperChars[i] = c] ELSE c

\* str.lower()
Lower(s) == [i \in 1..Len(s) |-> ToLower(s[i])]

\* str.strip()
Strip(s) ==
    LET keep == {i \in 1..Len(s) : ~IsSpace(s[i])}
    IN  IF keep = {} THEN <<>>
        ELSE SubSeq(s, CHOOSE i \in keep : \A j \in keep : i <= j,
                       CHOOSE i \in keep : \A j \in keep : j <= i)

\* str.find(pat): 0-based index of the first occurrence, -1 when none
Find(s, pat) ==
    LET at == {i \in 1..(Len(s) - Len(pat) + 1) : SubSeq(s, i, i + Len(pat) - 1) = pat}
    IN  IF at = {} THEN -1 ELSE (CHOOSE i \in at : \A j \in at : i <= j) - 1

\* sep.join(parts)
RECURSIVE Join(_, _)
Join(parts, sep) ==
    IF parts = <<>> THEN <<>>
    ELSE IF Len(parts) = 1 THEN parts[1]
    ELSE parts[1] \o sep \o Join(Tail(parts), sep)

\* the index after the longest run of whitespace that starts at i
WsEnd(s, i) ==
    CHOOSE j \in i..(Len(s) + 1) :
        /\ j = Len(s) + 1 \/ ~IsSpace(s[j])
        /\ \A k \in i..(j - 1) : IsSpace(s[k])

\* [f(x) for x in parts if f(x)] with f = str.strip
RECURSIVE StripNonEmpty(_)
StripNonEmpty(parts) ==
    IF parts = <<>> THEN <<>>
    ELSE LET t == Strip(parts[1])
         IN  (IF t = <<>> THEN <<>> ELSE <<t>>) \o StripNonEmpty(Tail(parts))

\* str(v) inside an f-string
PyStr(v) ==
    CASE v.t = "int"  -> IF v.n < 0 THEN <<"-">> \o StrOfNat(0 - v.n) ELSE StrOfNat(v.n)
      [] v.t = "str"  -> v.s
      [] v.t = "bool" -> IF v.n = 1 THEN <<"T", "r", "u", "e">>
                         ELSE <<"F", "a", "l", "s", "e">>
      [] v.t = "null" -> None
      [] OTHER        -> <<"[", "]">>

\* all sequences over S of length 0..n
SeqsUpTo(S, n) == UNION {[1..k -> S] : k \in 0..n}

\* ------------------------------------------------- compose_transcript.py
HEADINGS ==
    << <<"New Products & Capabilities">>,
       <<"Strategic Business Impact">>,
       <<"Implementation Opportunities">>,
       <<"Market Dynamics">>,
       <<"Talent Market Shifts">> >>

\* (v or "").strip(): raises AttributeError on a truthy value that is no str
OrStrip(v) ==
    IF ~Truthy(v) THEN [raised |-> FALSE, s |-> <<>>]
    ELSE IF v.t = "str" THEN [raised |-> FALSE, s |-> Strip(v.s)]
    ELSE [raised |-> TRUE, s |-> <<>>]

\* one footnote entry that is a dict, at position i (counted from 1).  A
\* bool is an instance of int: an "id" of true or false is kept as True or
\* False, which count as 1 and 0 (idIsBool)
NormFootnote(f, i) ==
    LET fid == IF f.id.t \in {"int", "bool"} THEN f.id.n ELSE i
        ttl == OrStrip(f.title)
        url == OrStrip(f.url)
    IN  [raised |-> ttl.raised \/ url.raised,
         keep   |-> url.s # <<>>,
         fn     |-> [id |-> fid, idIsBool |-> f.id.t = "bool",
                     title |-> ttl.s, url |-> url.s]]

\* the footnote loop, from entry i on
RECURSIVE NormFootnotes(_, _)
NormFootnotes(fns, i) ==
    IF i > Len(fns) THEN [raised |-> FALSE, footnotes |-> <<>>]
    ELSE LET rest == NormFootnotes(fns, i + 1)
         IN  IF ~fns[i].dict THEN rest
             ELSE LET r == NormFootnote(fns[i], i)
                  IN  [raised    |-> r.raised \/ rest.raised,
                       footnotes |-> IF r.keep THEN <<r.fn>> \o rest.footnotes
                                     ELSE rest.footnotes]

\* for x in (p.get("sources") or []): a str gives its characters, a number
\* other than 0 raises TypeError
SrcItems(src) ==
    CASE src.t = "list" -> [raised |-> FALSE, items |-> src.items]
      [] src.t = "str"  -> [raised |-> FALSE,
                            items  |-> [i \in 1..Len(src.s) |-> JStr(<<src.s[i]>>)]]
      [] src.t = "int"  -> [raised |-> src.n # 0, items |-> <<>>]
      [] OTHER          -> [raised |-> FALSE, items |-> <<>>]

\* str(x).isdigit()
PyStrIsDigit(x) ==
    CASE x.t = "int" -> x.n >= 0
      [] x.t = "str" -> /\ x.s # <<>>
                        /\ \A i \in 1..Len(x.s) : IsDigit(x.s[i]) \/ x.s[i] = SUP2
      [] OTHER       -> FALSE

\* int(x) for an x with str(x).isdigit(): raises ValueError on a digit
\* character that is no decimal digit
PyInt(x) ==
    IF x.t = "int" THEN [raised |-> FALSE, n |-> x.n]
    ELSE IF AllDigits(x.s) THEN [raised |-> FALSE, n |-> NumVal(x.s)]
    ELSE [raised |-> TRUE, n |-> 0]

\* [int(x) for x in items if str(x).isdigit()]
RECURSIVE PyInts(_)
PyInts(items) ==
    IF items = <<>> THEN [raised |-> FALSE, ids |-> <<>>]
    ELSE LET rest == PyInts(Tail(items))
         IN  IF ~PyStrIsDigit(items[1]) THEN rest
             ELSE LET r == PyInt(items[1])
                  IN  [raised |-> r.raised \/ rest.raised,
                       ids    |-> <<r.n>> \o rest.ids]

CitationIds(src) ==
    LET it == SrcItems(src)
    IN  IF it.raised THEN [raised |-> TRUE, ids |-> <<>>] ELSE PyInts(it.items)

\* one entry of a section's paragraphs
NormParagraphKeepingEmpty(p) ==
    IF p.kind = "str"
    THEN [raised |-> FALSE, keep |-> TRUE,
          para |-> [text |-> Strip(p.text.s), sources |-> <<>>]]
    ELSE IF p.kind = "dict"
    THEN LET t    == OrStrip(p.text)
             srcs == IF t.raised THEN [raised |-> TRUE, ids |-> <<>>]
                     ELSE CitationIds(p.sources)
         IN  [raised |-> srcs.raised, keep |-> TRUE,
              para |-> [text |-> t.s, sources |-> srcs.ids]]
    ELSE [raised |-> FALSE, keep |-> FALSE,
          para |-> [text |-> <<>>, sources |-> <<>>]]

NormParagraph(p) ==
    IF p.kind = "str"
    THEN LET t == Strip(p.text.s)
         IN  [raised |-> FALSE, keep |-> t # <<>>,
              para |-> [text |-> t, sources |-> <<>>]]
    ELSE IF p.kind = "dict"
    THEN LET t    == OrStrip(p.text)
             srcs == IF t.raised THEN [raised |-> TRUE, ids |-> <<>>]
                     ELSE CitationIds(p.sources)
         IN  [raised |-> srcs.raised, keep |-> t.s # <<>>,
              para |-> [text |-> t.s, sources |-> srcs.ids]]
    ELSE [raised |-> FALSE, keep |-> FALSE,
          para |-> [text |-> <<>>, sources |-> <<>>]]

\* the paragraph loop of one section
RECURSIVE NormParagraphs(_)
NormParagraphs(ps) ==
    IF ps = <<>> THEN [raised |-> FALSE, paragraphs |-> <<>>]
    ELSE LET r    == NormParagraph(ps[1])
             rest == NormParagraphs(Tail(ps))
         IN  [raised     |-> r.raised \/ rest.raised,
              paragraphs |-> IF r.keep THEN <<r.para>> \o rest.paragraphs
                             ELSE rest.paragraphs]

\* the section loop
RECURSIVE NormSections(_)
NormSections(secs) ==
    IF secs = <<>> THEN [raised |-> FALSE, sections |-> <<>>]
    ELSE LET s    == secs[1]
             rest == NormSections(Tail(secs))
         IN  IF s.kind = "str"
             THEN [raised   |-> rest.raised,
                   sections |-> <<[title |-> Strip(s.title.s), paragraphs |-> <<>>]>>
                                \o rest.sections]
             ELSE IF s.kind = "dict"
             THEN LET title == OrStrip(s.title)
                      paras == NormParagraphs(s.paragraphs)
                  IN  [raised   |-> title.raised \/ paras.raised \/ rest.raised,
                       sections |-> <<[title |-> title.s,
                                       paragraphs |-> paras.paragraphs]>>
                                    \o rest.sections]
             ELSE rest

\* data.get raises AttributeError on a top level that is no object
normalize_from_json(data) ==
    IF data.top # "dict" THEN [NoNorm EXCEPT !.raised = TRUE]
    ELSE LET spoken == OrStrip(data.spoken)
             fns    == NormFootnotes(data.footnotes, 1)
             secs   == NormSections(data.sections)
         IN  IF spoken.raised \/ fns.raised \/ secs.raised
             THEN [NoNorm EXCEPT !.raised = TRUE]
             ELSE [raised    |-> FALSE,
                   sections  |-> secs.sections,
                   footnotes |-> fns.footnotes,
                   spoken    |-> spoken.s]

\* the text up to a line that starts with "sources:" in any case, stripped,
\* with every run of spaces and tabs made one space
RECURSIVE CollapseBlanks(_, _)
CollapseBlanks(s, i) ==
    IF i > Len(s) THEN <<>>
    ELSE IF IsBlank(s[i])
         THEN (IF i > 1 /\ IsBlank(s[i - 1]) THEN <<>> ELSE <<" ">>)
              \o CollapseBlanks(s, i + 1)
         ELSE <<s[i]>> \o CollapseBlanks(s, i + 1)

SOURCES_LINE == <<"\n", "s", "o", "u", "r", "c", "e", "s", ":">>

CleanFreeText(text) ==
    LET cut  == Find(Lower(text), SOURCES_LINE)
        head == IF cut # -1 THEN SubSeq(text, 1, cut) ELSE text
    IN  CollapseBlanks(Strip(head), 1)

\* re.split(r'\n\s*\n', s): the pieces between the matches, from the piece
\* that starts at index start on; i is the position the scan has reached
RECURSIVE SplitBlankLines(_, _, _)
SplitBlankLines(s, start, i) ==
    IF i > Len(s) THEN <<SubSeq(s, start, Len(s))>>
    ELSE IF s[i] = "\n"
         THEN LET nl == {k \in (i + 1)..(WsEnd(s, i) - 1) : s[k] = "\n"}
              IN  IF nl # {}
                  THEN LET k == CHOOSE x \in nl : \A y \in nl : y <= x
                       IN  <<SubSeq(s, start, i - 1)>> \o SplitBlankLines(s, k + 1, k + 1)
                  ELSE SplitBlankLines(s, start, i + 1)
         ELSE SplitBlankLines(s, start, i + 1)

\* [b.strip() for b in re.split(r'\n\s*\n', text) if b.strip()]
Blocks(text) == StripNonEmpty(SplitBlankLines(text, 1, 1))

\* _SENT_SPLIT.split(s): a cut at whitespace that follows '.', '!' or '?'
\* and is followed by a capital letter or '('
RECURSIVE SentSplit(_, _, _)
SentSplit(s, start, i) ==
    IF i > Len(s) THEN <<SubSeq(s, start, Len(s))>>
    ELSE IF i > 1 /\ s[i - 1] \in {".", "!", "?"} /\ IsSpace(s[i])
         THEN LET j == WsEnd(s, i)
              IN  IF j <= Len(s) /\ (IsUpper(s[j]) \/ s[j] = "(")
                  THEN <<SubSeq(s, start, i - 1)>> \o SentSplit(s, j, j)
                  ELSE SentSplit(s, start, i + 1)
         ELSE SentSplit(s, start, i + 1)

\* [s.strip() for s in _SENT_SPLIT.split(text) if s.strip()]
Sentences(text) == StripNonEmpty(SentSplit(text, 1, 1))

\* the batching loop: buf holds the sentences of the paragraph being filled
RECURSIVE BatchOverFour(_, _)
BatchOverFour(sents, buf) ==
    IF sents = <<>> THEN (IF buf # <<>> THEN <<Join(buf, <<" ">>)>> ELSE <<>>)
    ELSE LET b == Append(buf, sents[1])
         IN  IF Len(b) > 4
             THEN <<Join(b, <<" ">>)>> \o BatchOverFour(Tail(sents), <<>>)
             ELSE BatchOverFour(Tail(sents), b)

RECURSIVE Batch(_, _)
Batch(sents, buf) ==
    IF sents = <<>> THEN (IF buf # <<>> THEN <<Join(buf, <<" ">>)>> ELSE <<>>)
    ELSE LET b == Append(buf, sents[1])
         IN  IF Len(b) >= 4
             THEN <<Join(b, <<" ">>)>> \o Batch(Tail(sents), <<>>)
             ELSE Batch(Tail(sents), b)

paragraphs_keeping_two_blocks(text) ==
    IF text = <<>> THEN <<>>
    ELSE LET t      == CleanFreeText(text)
             blocks == Blocks(t)
         IN  IF Len(blocks) >= 2 THEN blocks
             ELSE Batch(Sentences(t), <<>>)

paragraphs_from_free_text(text) ==
    IF text = <<>> THEN <<>>
    ELSE LET t      == CleanFreeText(text)
             blocks == Blocks(t)
         IN  IF Len(blocks) >= 3 THEN blocks
             ELSE Batch(Sentences(t), <<>>)

\* paragraph i (counted from 0) goes to heading i % len(HEADINGS)
Bucket(paras, k) ==
    LET n == Len(HEADINGS)
        m == IF Len(paras) >= k THEN ((Len(paras) - k) \div n) + 1 ELSE 0
    IN  [j \in 1..m |-> [text |-> paras[k + n * (j - 1)], sources |-> <<>>]]

distribute_or_nothing(paras) ==
    IF paras = <<>> THEN <<>>
    ELSE [k \in 1..Len(HEADINGS) |->
            [title |-> HEADINGS[k], paragraphs |-> Bucket(paras, k)]]

distribute_across_headings(paras) ==
    IF paras = <<>>
    THEN [k \in 1..Len(HEADINGS) |-> [title |-> HEADINGS[k], paragraphs |-> <<>>]]
    ELSE [k \in 1..Len(HEADINGS) |->
            [title |-> HEADINGS[k], paragraphs |-> Bucket(paras, k)]]

\* What a renderer emits is a sequence of blocks [kind, runs]: kind "p" is
\* a paragraph of the body, "heading" a title line, "source" a line of the
\* source list; a run is a stretch of text, set as superscript or not.
Run(text, sup) == [text |-> text, sup |-> sup]

Block(kind, rs) == [kind |-> kind, runs |-> rs]

\* html.escape(s): '&', '<', '>' and both quotes are replaced
html_escape_quote(s) ==
    [i \in 1..Len(s) |->
        CASE s[i] = "&"  -> "&amp;"
          [] s[i] = "<"  -> "&lt;"
          [] s[i] = ">"  -> "&gt;"
          [] s[i] = "\"" -> "&quot;"
          [] s[i] = "'"  -> "&#x27;"
          [] OTHER       -> s[i]]

ToUpper(c) ==
    IF \E i \in 1..26 : LowerChars[i] = c
    THEN UpperChars[CHOOSE i \in 1..26 : LowerChars[i] = c]
    ELSE c

\* str.upper()
Upper(s) == [i \in 1..Len(s) |-> ToUpper(s[i])]

\* html.escape(title.upper()); the five standard headings are one piece of
\* text each, and so are their upper-case escaped forms
HtmlTitle(title) ==
    LET upper == << <<"NEW PRODUCTS &amp; CAPABILITIES">>,
                    <<"STRATEGIC BUSINESS IMPACT">>,
                    <<"IMPLEMENTATION OPPORTUNITIES">>,
                    <<"MARKET DYNAMICS">>,
                    <<"TALENT MARKET SHIFTS">> >>
    IN  IF \E k \in 1..Len(HEADINGS) : HEADINGS[k] = title
        THEN upper[CHOOSE k \in 1..Len(HEADINGS) : HEADINGS[k] = title]
        ELSE html_escape_quote(Upper(title))

\* ','.join(str(int(s)) for s in srcs if str(s).isdigit())
SupText(srcs) ==
    LET shown == SelectSeq(srcs, LAMBDA n : n >= 0)
    IN  Join([k \in 1..Len(shown) |-> StrOfNat(shown[k])], <<",">>)

\* the blocks of the paragraphs of one section: a paragraph without text is
\* left out; the citations are one superscript after the text (in DOCX
\* with a space before them), and there is none without a citation
RECURSIVE ParagraphBlocks(_, _)
ParagraphBlocks(paras, escaped) ==
    IF paras = <<>> THEN <<>>
    ELSE LET text == Strip(paras[1].text)
             srcs == paras[1].sources
             sup  == IF srcs = <<>> THEN <<>>
                     ELSE <<Run((IF escaped THEN <<>> ELSE <<" ">>) \o SupText(srcs),
                                TRUE)>>
         IN  (IF text = <<>> THEN <<>>
              ELSE <<Block("p", <<Run(IF escaped THEN html_escape_quote(text)
                                      ELSE text, FALSE)>> \o sup)>>)
             \o ParagraphBlocks(Tail(paras), escaped)

\* the section loop of a renderer: the title when it is not empty, then
\* the paragraphs
RECURSIVE SectionBlocks(_, _)
SectionBlocks(sections, escaped) ==
    IF sections = <<>> THEN <<>>
    ELSE LET title == Strip(sections[1].title)
         IN  (IF title = <<>> THEN <<>>
              ELSE <<Block("heading", <<Run(IF escaped THEN HtmlTitle(title)
                                            ELSE title, FALSE)>>)>>)
             \o ParagraphBlocks(sections[1].paragraphs, escaped)
             \o SectionBlocks(Tail(sections), escaped)

\* the source list of a renderer: "[id] title - url" or "[id] url" for
\* every footnote with a url, under the heading "Sources"
RECURSIVE FootnoteBlocks(_, _)
FootnoteBlocks(footnotes, escaped) ==
    IF footnotes = <<>> THEN <<>>
    ELSE LET f     == footnotes[1]
             label == <<"[">>
                      \o PyStr(IF f.idIsBool THEN JBool(f.id = 1) ELSE JInt(f.id))
                      \o <<"]", " ">>
             ttl   == IF escaped THEN html_escape_quote(Strip(f.title))
                      ELSE Strip(f.title)
             url   == IF escaped THEN html_escape_quote(Strip(f.url))
                      ELSE Strip(f.url)
         IN  (IF url = <<>> THEN <<>>
              ELSE <<Block("source",
                           <<Run(label \o (IF ttl = <<>> THEN <<>>
                                           ELSE ttl \o <<" ", EM_DASH, " ">>),
                                 FALSE),
                             Run(url, FALSE)>>)>>)
             \o FootnoteBlocks(Tail(footnotes), escaped)

SOURCES_TITLE == <<"S", "o", "u", "r", "c", "e", "s">>

build_html(sections, footnotes) ==
    SectionBlocks(sections, TRUE)
    \o (IF footnotes = <<>> THEN <<>>
        ELSE <<Block("heading", <<Run(SOURCES_TITLE, FALSE)>>)>>
             \o FootnoteBlocks(footnotes, TRUE))

build_docx(sections, footnotes) ==
    SectionBlocks(sections, FALSE)
    \o (IF footnotes = <<>> THEN <<>>
        ELSE <<Block("heading", <<Run(SOURCES_TITLE, FALSE)>>)>>
             \o FootnoteBlocks(footnotes, FALSE))

\* any(len(sec.get("paragraphs") or []) > 0 for sec in norm["sections"])
has_paras(norm) ==
    \E i \in 1..Len(norm.sections) : Len(norm.sections[i].paragraphs) > 0

\* the text the free-text fallback works on: norm's "spoken", and the
\* transcript file only when that is empty
FallbackTextFileFirst(spoken, file) ==
    IF file # None THEN file ELSE spoken

FallbackText(spoken, file) ==
    IF spoken # <<>> THEN spoken
    ELSE IF file # None THEN file
    ELSE <<>>

\* main, up to the document handed to the renderers; exit 1 is SystemExit
\* or an uncaught exception
compose_transcript_main(data, file) ==
    LET failed == [NotBuilt EXCEPT !.op = "compose_transcript", !.exit = 1]
    IN  IF data.top = "nofile" THEN failed
        ELSE LET norm == normalize_from_json(data)
             IN  IF norm.raised THEN [failed EXCEPT !.norm = norm]
                 ELSE LET paras    == IF has_paras(norm) THEN <<>>
                                      ELSE paragraphs_from_free_text(
                                               FallbackText(norm.spoken, file))
                          sections == IF has_paras(norm) THEN norm.sections
                                      ELSE distribute_across_headings(paras)
                      IN  [op |-> "compose_transcript", exit |-> 0, norm |-> norm,
                           paras |-> paras,
                           sections |-> sections,
                           footnotes |-> norm.footnotes, sources |-> <<>>,
                           html |-> build_html(sections, norm.footnotes),
                           docx |-> build_docx(sections, norm.footnotes)]

\* ------------------------------------- the files compose_transcript reads
\* paragraph entries a JSON file is built from
MaxParagraphs == 2
\* footnote entries a JSON file is built from
MaxFootnotes == 2

IdVals ==
    {JNull, JInt(0), JInt(1), JInt(2), JInt(-1), JStr(<<"7">>), JBool(TRUE)}

TitleVals == {JNull, JStr(<<" ">>), JInt(5), JList(1)}

UrlVals == {JNull, JStr(<<" ">>), JInt(7), JStr(<<" ", "v", "\n">>)}

FootnoteEntries ==
    {Fn(id, JStr(<<"T">>), JStr(<<"u">>)) : id \in IdVals}
    \cup {Fn(JInt(1), t, JStr(<<"u">>)) : t \in TitleVals}
    \cup {Fn(JInt(1), JStr(<<"T">>), u) : u \in UrlVals}
    \cup {NotADict}

SourcesVals ==
    {SrcNull,
     SrcList(<<JInt(1)>>),
     SrcList(<<JInt(9)>>),
     SrcList(<<JStr(<<"1">>), JInt(-1), JNull>>),
     SrcList(<<JStr(<<SUP2>>)>>),
     SrcInt(5),
     SrcStr(<<"1", "2">>)}

ParagraphEntries ==
    {ParaText(JStr(<<"p">>), src) : src \in SourcesVals}
    \cup {ParaText(t, SrcNull) : t \in {JNull, JStr(<<" ", "\n">>), JInt(3)}}
    \cup {ParaStr(<<" ", "q", " ">>), ParaStr(<<"\t">>)}
    \cup {ParaSentences(<<Sentence(<<"H", ".">>, <<1>>), Sentence(<<"B", ".">>, <<2>>)>>),
          ParaOther}

SpokenVals ==
    {JNull, JStr(<<" ", "\n">>), JStr(<<" ", "S", ".", " ", "s", ".", "\n">>)}

TxtFiles ==
    {None, <<>>, <<"\n", " ">>,
     <<"T", ".", "\n", "\n", "U", ".", "\n", " ", "\n", "\n", "V", ".", "\n">>,
     <<"W", ".", " ", "X", ".", "\n", "\n", "-", "-", "-", "\n",
       "S", "o", "u", "r", "c", "e", "s", ":", "\n",
       "[", "1", "]", " ", "T", " ", EM_DASH, " ", "u">>}

CitingSection ==
    SecDict(JStr(<<"A">>),
            <<ParaText(JStr(<<"p">>), SrcList(<<JInt(1), JInt(2), JInt(9)>>))>>)

\* pairs <<JSON file, transcript file>>
ComposeInputs ==
    {<<JsonObject(JNull, fns, <<CitingSection>>), None>> :
        fns \in SeqsUpTo(FootnoteEntries, MaxFootnotes)}
    \cup
    {<<JsonObject(x[1], <<Fn(JInt(1), JStr(<<"T">>), JStr(<<"u">>))>>,
                  <<SecStr(<<"B", " ">>), SecDict(JStr(<<" ", "A">>), x[2])>>),
       x[3]>> :
        x \in SpokenVals \X SeqsUpTo(ParagraphEntries, MaxParagraphs) \X TxtFiles}
    \cup
    ({NoJson, JsonList, JsonScalar,
      JsonObject(JInt(5), <<>>, <<>>),
      JsonObject(JNull, <<>>, <<SecOther>>),
      JsonObject(JNull, <<>>, <<SecDict(JInt(4), <<>>)>>)} \X TxtFiles)

\* the feed scripts take no part
FeedIdle ==
    /\ feedExists = FALSE
    /\ feed = NoFeed
    /\ audio = [f \in FileNames |-> NoFile]
    /\ last = Idle
    /\ inserted = <<>>
    /\ runs = 0
    /\ writes = 0
    /\ race = NoRace

feedVars == <<feedExists, feed, audio, last, inserted, runs, writes, race>>

InitCompose ==
    /\ FeedIdle
    /\ built = NotBuilt
    /\ \E x \in ComposeInputs : json = x[1] /\ txt = x[2]

\* one run of compose_transcript.py
ComposeTranscript ==
    /\ built.op = "none"
    /\ built' = compose_transcript_main(json, txt)
    /\ UNCHANGED <<json, txt>>
    /\ UNCHANGED feedVars

NextCompose == ComposeTranscript

SpecCompose == InitCompose /\ [][NextCompose]_vars

\* ------------------------------------------------------------- free text
\* sentences a free text is built from
MaxSentences == 8

Separators == {<<" ">>, <<"\n">>, <<"\n", "\n">>}

Styles == {"plain", "lower", "messy"}

\* sentence k: a capital letter (in style "lower" every second sentence
\* starts in lower case) and '.', '!' or '?'
SentenceText(k, style) ==
    <<IF style = "lower" /\ k % 2 = 0 THEN LowerChars[k] ELSE UpperChars[k],
      <<".", "!", "?">>[(k % 3) + 1]>>

\* in style "messy" the white space is irregular
SeparatorText(sep, style) ==
    IF style # "messy" THEN sep
    ELSE IF sep = <<" ">> THEN <<" ", "\t", " ">>
    ELSE IF sep = <<"\n">> THEN <<" ", "\n">>
    ELSE <<"\n", " ", "\t", "\n", " ">>

RECURSIVE FreeTextFrom(_, _, _, _)
FreeTextFrom(k, n, seps, style) ==
    IF k > n THEN <<>>
    ELSE SentenceText(k, style)
         \o (IF k < n THEN SeparatorText(seps[k], style) ELSE <<>>)
         \o FreeTextFrom(k + 1, n, seps, style)

FreeText(n, seps, style) ==
    (IF style = "messy" THEN <<" ", "\n">> ELSE <<>>)
    \o FreeTextFrom(1, n, seps, style)
    \o (IF style = "messy" THEN <<"\n", "\n">> ELSE <<>>)

FreeTexts ==
    UNION {{FreeText(n, seps, style) :
              seps \in [1..(n - 1) -> Separators], style \in Styles} :
           n \in 0..MaxSentences}

InitText ==
    /\ FeedIdle
    /\ json = NoJson
    /\ built = NotBuilt
    /\ txt \in FreeTexts

\* paragraphs_from_free_text is applied to the text
ParagraphsFromFreeText ==
    /\ built.op = "none"
    /\ built' = [NotBuilt EXCEPT !.op = "paragraphs_from_free_text",
                                 !.paras = paragraphs_from_free_text(txt)]
    /\ UNCHANGED <<json, txt>>
    /\ UNCHANGED feedVars

\* distribute_across_headings is applied to the paragraphs
DistributeAcrossHeadings ==
    /\ built.op = "paragraphs_from_free_text"
    /\ built' = [built EXCEPT !.op = "distribute_across_headings",
                              !.sections = distribute_across_headings(built.paras)]
    /\ UNCHANGED <<json, txt>>
    /\ UNCHANGED feedVars

NextText ==
    \/ ParagraphsFromFreeText
    \/ DistributeAcrossHeadings

SpecText == InitText /\ [][NextText]_vars

\* ------------------------------------------------------ generate_brief.py
\* intro_date_str() on the day of ClockStart
INTRO == <<"Hello, here is your weekly update for Thursday, January 2, 2025">>

\* the texts of the sentence objects of one paragraph that are not empty
RECURSIVE SentenceTexts(_)
SentenceTexts(sentences) ==
    IF sentences = <<>> THEN <<>>
    ELSE LET t == Strip(sentences[1].text)
         IN  (IF t = <<>> THEN <<>> ELSE <<t>>) \o SentenceTexts(Tail(sentences))

\* what one paragraph entry adds to the script: a str is taken as it is, a
\* dict gives the texts of its "sentences" joined by one space
ParaVoice(p) ==
    IF p.kind = "str"
    THEN (IF Strip(p.text.s) = <<>> THEN <<>> ELSE <<Strip(p.text.s)>>)
    ELSE IF p.kind = "dict"
    THEN (IF SentenceTexts(p.sentences) = <<>> THEN <<>>
          ELSE <<Join(SentenceTexts(p.sentences), <<" ">>)>>)
    ELSE <<>>

RECURSIVE ParasVoice(_)
ParasVoice(ps) ==
    IF ps = <<>> THEN <<>> ELSE ParaVoice(ps[1]) \o ParasVoice(Tail(ps))

RECURSIVE SectionsVoice(_)
SectionsVoice(secs) ==
    IF secs = <<>> THEN <<>>
    ELSE (IF secs[1].kind = "dict" THEN ParasVoice(secs[1].paragraphs) ELSE <<>>)
         \o SectionsVoice(Tail(secs))

flatten_for_voice(sections) ==
    Strip(Join(<<INTRO>> \o SectionsVoice(sections), <<"\n", "\n">>))

\* the line written for one footnote; none for an entry without url, and
\* none when the try block raises (no dict, title or url no str)
SourceLine(f) ==
    LET ttl   == OrStrip(f.title)
        url   == OrStrip(f.url)
        label == IF f.id.t = "null" THEN <<"-">>
                 ELSE <<"[">> \o PyStr(f.id) \o <<"]">>
    IN  IF ~f.dict \/ ttl.raised \/ url.raised \/ url.s = <<>> THEN <<>>
        ELSE IF ttl.s # <<>>
        THEN <<label \o <<" ">> \o ttl.s \o <<" ", EM_DASH, " ">> \o url.s>>
        ELSE <<label \o <<" ">> \o url.s>>

RECURSIVE SourceLines(_)
SourceLines(footnotes) ==
    IF footnotes = <<>> THEN <<>>
    ELSE SourceLine(footnotes[1]) \o SourceLines(Tail(footnotes))

\* the plain-text transcript: the script, and a Sources block when there
\* is a footnote
transcript_text(spoken, footnotes) ==
    Join(<<spoken>>
         \o (IF footnotes # <<>>
             THEN << <<>>, <<"-", "-", "-">>,
                     <<"S", "o", "u", "r", "c", "e", "s", ":">> >>
                  \o SourceLines(footnotes)
             ELSE <<>>),
         <<"\n">>)

\* ------------------------------------------- build_transcript_payload.py
\* pat stands at index i of s
At(s, i, pat) ==
    /\ i >= 1
    /\ i + Len(pat) - 1 <= Len(s)
    /\ SubSeq(s, i, i + Len(pat) - 1) = pat

\* ^ under re.MULTILINE
LineStart(s, i) == i = 1 \/ s[i - 1] = "\n"

\* the ends (index after the match) of \s*$ from index i, under re.MULTILINE
LineEnds(s, i) ==
    {e \in i..WsEnd(s, i) : e = Len(s) + 1 \/ s[e] = "\n"}

\* the match of \s*Sources\s*:\s*$ from index i, as the index after it; 0
\* when there is none
SourcesHeadEnd(s, i) ==
    LET b == WsEnd(s, i)
        c == WsEnd(s, b + 7)
        e == LineEnds(s, c + 1)
    IN  IF At(Lower(s), b, <<"s", "o", "u", "r", "c", "e", "s">>)
           /\ At(s, c, <<":">>) /\ e # {}
        THEN CHOOSE x \in e : \A y \in e : y <= x
        ELSE 0

\* ^\s*---\s*\n\s*Sources\s*:\s*$ at index i: the index after the match, 0
\* when there is none
DividerTwoLines(s, i) ==
    LET a == WsEnd(s, i)
    IN  IF LineStart(s, i) /\ At(s, a, <<"-", "-", "-">>)
           /\ \E k \in (a + 3)..(WsEnd(s, a + 3) - 1) : s[k] = "\n"
        THEN SourcesHeadEnd(s, a + 3)
        ELSE 0

\* ^---\s*Sources\s*:\s*$ at index i
DividerOneLine(s, i) ==
    IF LineStart(s, i) /\ At(s, i, <<"-", "-", "-">>)
    THEN SourcesHeadEnd(s, i + 3)
    ELSE 0

\* re.split by a divider: the pieces between its matches
RECURSIVE SplitDivider(_, _, _, _)
SplitDivider(s, start, i, twoLines) ==
    IF i > Len(s) THEN <<SubSeq(s, start, Len(s))>>
    ELSE LET e == IF twoLines THEN DividerTwoLines(s, i) ELSE DividerOneLine(s, i)
         IN  IF e # 0
             THEN <<SubSeq(s, start, i - 1)>> \o SplitDivider(s, e, e, twoLines)
             ELSE SplitDivider(s, start, i + 1, twoLines)

\* str.splitlines(), each line stripped, the empty ones left out
RECURSIVE SplitLines(_, _, _)
SplitLines(s, start, i) ==
    IF i > Len(s) THEN <<SubSeq(s, start, Len(s))>>
    ELSE IF s[i] = "\n"
         THEN <<SubSeq(s, start, i - 1)>> \o SplitLines(s, i + 1, i + 1)
         ELSE SplitLines(s, start, i + 1)

\* the index after the longest run of non-whitespace that starts at i
NonWsEnd(s, i) ==
    CHOOSE j \in i..(Len(s) + 1) :
        /\ j = Len(s) + 1 \/ IsSpace(s[j])
        /\ \A k \in i..(j - 1) : ~IsSpace(s[k])

\* the index after the longest run of digits that starts at i
DigitsEnd(s, i) ==
    CHOOSE j \in i..(Len(s) + 1) :
        /\ j = Len(s) + 1 \/ ~IsDigit(s[j])
        /\ \A k \in i..(j - 1) : IsDigit(s[k])

\* re.match(r"\[(\d+)\]\s*(.+?)\s*---\s*(\S+)", line): the source, or no
\* match.  The \s* after ']' takes as much as it can, the title as little
\* as it can.
SourceMatch(line) ==
    LET p  == DigitsEnd(line, 2)
        q  == p + 1
        ok == At(line, 1, <<"[">>) /\ p > 2 /\ At(line, p, <<"]">>)
        \* title line[ts..te] followed by \s*---\s*\S
        fits(ts, te) ==
            LET x == WsEnd(line, te + 1)
            IN  At(line, x, <<"-", "-", "-">>) /\ WsEnd(line, x + 3) <= Len(line)
        cand == IF ok
                THEN {c \in (q..WsEnd(line, q)) \X (q..Len(line)) :
                        c[1] <= c[2] /\ fits(c[1], c[2])}
                ELSE {}
    IN  IF cand = {} THEN [matched |-> FALSE, id |-> 0, title |-> <<>>, url |-> <<>>]
        ELSE LET c == CHOOSE c \in cand :
                        \A d \in cand : d[1] < c[1] \/ (d[1] = c[1] /\ c[2] <= d[2])
                 y == WsEnd(line, WsEnd(line, c[2] + 1) + 3)
             IN  [matched |-> TRUE,
                  id      |-> NumVal(SubSeq(line, 2, p - 1)),
                  title   |-> Strip(SubSeq(line, c[1], c[2])),
                  url     |-> Strip(SubSeq(line, y, NonWsEnd(line, y) - 1))]

\* the sources of the lines that match
RECURSIVE ParseSources(_)
ParseSources(lines) ==
    IF lines = <<>> THEN <<>>
    ELSE LET m == SourceMatch(lines[1])
         IN  (IF m.matched THEN <<[id |-> m.id, title |-> m.title, url |-> m.url]>>
              ELSE <<>>)
             \o ParseSources(Tail(lines))

\* list.sort(key=id): stable
RECURSIVE SortById(_)
SortById(srcs) ==
    IF srcs = <<>> THEN <<>>
    ELSE LET rest  == SortById(SubSeq(srcs, 1, Len(srcs) - 1))
             x     == srcs[Len(srcs)]
             k     == Cardinality({i \in 1..Len(rest) : rest[i].id <= x.id})
         IN  SubSeq(rest, 1, k) \o <<x>> \o SubSeq(rest, k + 1, Len(rest))

\* exit 1: ValueError, the transcript has no divider and Sources block
load_and_split(file) ==
    LET text  == Strip(file)
        two   == SplitDivider(text, 1, 1, TRUE)
        parts == IF Len(two) # 2 THEN SplitDivider(text, 1, 1, FALSE) ELSE two
    IN  IF Len(parts) # 2
        THEN [NotBuilt EXCEPT !.op = "load_and_split", !.exit = 1]
        ELSE [NotBuilt EXCEPT
                !.op = "load_and_split",
                !.paras = Blocks(Strip(parts[1])),
                !.sources = SortById(ParseSources(
                                StripNonEmpty(SplitLines(Strip(parts[2]), 1, 1))))]

\* re.split(r'(?<=[\.\?\!])\s+', s): a cut at white space that follows
\* '.', '?' or '!'
RECURSIVE SplitAfterStop(_, _, _)
SplitAfterStop(s, start, i) ==
    IF i > Len(s) THEN <<SubSeq(s, start, Len(s))>>
    ELSE IF i > 1 /\ s[i - 1] \in {".", "?", "!"} /\ IsSpace(s[i])
         THEN LET j == WsEnd(s, i)
              IN  <<SubSeq(s, start, i - 1)>> \o SplitAfterStop(s, j, j)
         ELSE SplitAfterStop(s, start, i + 1)

\* the maximal runs of s of characters of the class: inside[k] tells whether
\* s[k] is of it
Runs(s, inside) ==
    {SubSeq(s, x[1], x[2]) :
        x \in {y \in (1..Len(s)) \X (1..Len(s)) :
                 /\ y[1] <= y[2]
                 /\ \A k \in y[1]..y[2] : inside[k]
                 /\ y[1] = 1 \/ ~inside[y[1] - 1]
                 /\ y[2] = Len(s) \/ ~inside[y[2] + 1]}}

\* a character that [\s:/\-]+ does not split a title at
IsTitleChar(c) == ~(IsSpace(c) \/ c \in {":", "/", "-"})

\* [A-Za-z0-9]
IsAlnum(c) ==
    \/ IsDigit(c)
    \/ IsUpper(c)
    \/ \E i \in 1..26 : LowerChars[i] = c

\* the keywords of a source title: its pieces of four characters or more,
\* in lower case
Keywords(title) ==
    LET pieces == Runs(title, [k \in 1..Len(title) |-> IsTitleChar(title[k])])
    IN  {Lower(t) : t \in {u \in pieces : Len(u) >= 4}}

\* set(re.findall(r"[A-Za-z0-9]+", s.lower()))
Words(s) == Runs(Lower(s), [k \in 1..Len(s) |-> IsAlnum(Lower(s)[k])])

\* \[(\d+)\] at index i: the index after it, 0 when there is none
MarkerEnd(s, i) ==
    IF At(s, i, <<"[">>)
       /\ DigitsEnd(s, i + 1) > i + 1
       /\ At(s, DigitsEnd(s, i + 1), <<"]">>)
    THEN DigitsEnd(s, i + 1) + 1
    ELSE 0

\* [int(n) for n in re.findall(r"\[(\d+)\]", s)], from index i on
RECURSIVE Markers(_, _)
Markers(s, i) ==
    IF i > Len(s) THEN <<>>
    ELSE LET e == MarkerEnd(s, i)
         IN  IF e # 0
             THEN <<NumVal(SubSeq(s, i + 1, e - 2))>> \o Markers(s, e)
             ELSE Markers(s, i + 1)

\* re.sub(r"\s*\[(\d+)\]\s*", "", s), from index i on
RECURSIVE RemoveMarkers(_, _)
RemoveMarkers(s, i) ==
    IF i > Len(s) THEN <<>>
    ELSE LET e == MarkerEnd(s, WsEnd(s, i))
         IN  IF e # 0
             THEN RemoveMarkers(s, WsEnd(s, e))
             ELSE <<s[i]>> \o RemoveMarkers(s, i + 1)

\* sorted(set(...))
RECURSIVE SortedSet(_)
SortedSet(S) ==
    IF S = {} THEN <<>>
    ELSE LET m == CHOOSE x \in S : \A y \in S : x <= y
         IN  <<m>> \o SortedSet(S \ {m})

\* the sources a sentence without a marker is given: those with a keyword
\* of the title among the words of the sentence
KeywordCites(text, sources) ==
    {sources[k].id : k \in {j \in 1..Len(sources) :
                              Words(text) \cap Keywords(sources[j].title) # {}}}

\* one sentence with its citations: the [n] markers of its text when it has
\* any, else the sources matched by keyword
SentenceChunk(s, sources) ==
    LET m      == Markers(s, 1)
        direct == {m[k] : k \in 1..Len(m)}
        text   == Strip(RemoveMarkers(s, 1))
    IN  [text  |-> text,
         cites |-> SortedSet(IF direct # {} THEN direct
                             ELSE KeywordCites(text, sources))]

RECURSIVE SentenceChunks(_, _)
SentenceChunks(sents, sources) ==
    IF sents = <<>> THEN <<>>
    ELSE (IF Strip(sents[1]) = <<>> THEN <<>>
          ELSE <<SentenceChunk(Strip(sents[1]), sources)>>)
         \o SentenceChunks(Tail(sents), sources)

sentence_chunks_with_cites(paragraph, sources) ==
    SentenceChunks(SplitAfterStop(paragraph, 1, 1), sources)

\* html_escape(s): '&', '<' and '>' are replaced
html_escape(s) ==
    [i \in 1..Len(s) |->
        CASE s[i] = "&" -> "&amp;"
          [] s[i] = "<" -> "&lt;"
          [] s[i] = ">" -> "&gt;"
          [] OTHER      -> s[i]]

\* the superscripts of one chunk: <sup>c</sup> per citation in HTML, a run
\* " c" per citation in DOCX
SupRuns(cites, lead) ==
    [k \in 1..Len(cites) |-> Run(lead \o StrOfNat(cites[k]), TRUE)]

\* the runs of one paragraph: the chunks with one space between them
RECURSIVE ChunkRuns(_, _, _)
ChunkRuns(chunks, escaped, first) ==
    IF chunks = <<>> THEN <<>>
    ELSE (IF first THEN <<>> ELSE <<Run(<<" ">>, FALSE)>>)
         \o <<Run(IF escaped THEN html_escape(chunks[1].text) ELSE chunks[1].text,
                  FALSE)>>
         \o SupRuns(chunks[1].cites, IF escaped THEN <<>> ELSE <<" ">>)
         \o ChunkRuns(Tail(chunks), escaped, FALSE)

SOURCES_HEAD == <<"S", "o", "u", "r", "c", "e", "s", ":">>

\* the line "[num] title - url" of one source, the dash an em dash
SourceBlock(src, escaped) ==
    Block("source",
          <<Run(<<"[">> \o StrOfNat(src.id) \o <<"]", " ">>
                \o (IF escaped THEN html_escape(src.title) ELSE src.title)
                \o <<" ", EM_DASH, " ">>, FALSE),
            Run(src.url, FALSE)>>)

\* build_html of build_transcript_payload.py
payload_build_html(paragraphs, sources) ==
    [j \in 1..Len(paragraphs) |->
        Block("p", ChunkRuns(sentence_chunks_with_cites(paragraphs[j], sources),
                             TRUE, TRUE))]
    \o <<Block("heading", <<Run(SOURCES_HEAD, FALSE)>>)>>
    \o [k \in 1..Len(sources) |-> SourceBlock(sources[k], TRUE)]

\* build_docx of build_transcript_payload.py
payload_build_docx(paragraphs, sources) ==
    [j \in 1..Len(paragraphs) |->
        Block("p", ChunkRuns(sentence_chunks_with_cites(paragraphs[j], sources),
                             FALSE, TRUE))]
    \o <<Block("blank", <<>>), Block("heading", <<Run(SOURCES_HEAD, FALSE)>>)>>
    \o [k \in 1..Len(sources) |-> SourceBlock(sources[k], FALSE)]

\* main: the transcript is read and rendered twice
build_transcript_payload_main(file) ==
    LET split == load_and_split(file)
    IN  IF split.exit # 0 THEN split
        ELSE [split EXCEPT
                !.docx = payload_build_docx(split.paras, split.sources),
                !.html = payload_build_html(split.paras, split.sources)]

\* ----------------------------------------- the brief generate_brief gets
BriefSections ==
    {<<>>,
     <<SecDict(JStr(<<"A">>),
               <<ParaSentences(<<Sentence(<<"H", ".">>, <<1>>),
                                 Sentence(<<"B", ".">>, <<2>>)>>)>>)>>,
     <<SecStr(<<"x">>),
       SecDict(JStr(<<"A">>),
               <<ParaSentences(<<Sentence(<<"H", ".">>, <<1>>)>>),
                 ParaStr(<<"C", ".">>)>>)>>}

\* what the language model returned: an object with sections and footnotes
Briefs ==
    {JsonObject(JNull, fns, secs) :
        fns \in SeqsUpTo(FootnoteEntries, MaxFootnotes), secs \in BriefSections}

InitTranscript ==
    /\ FeedIdle
    /\ json = NoJson
    /\ txt = None
    /\ built = NotBuilt

\* generate_brief.py gets the brief and writes the JSON file and the
\* transcript
GenerateBrief(brief) ==
    /\ built.op = "none"
    /\ json' = brief
    /\ txt' = transcript_text(flatten_for_voice(brief.sections), brief.footnotes)
    /\ built' = [NotBuilt EXCEPT !.op = "generate_brief"]
    /\ UNCHANGED feedVars

\* build_transcript_payload.py reads the transcript back
BuildTranscriptPayload ==
    /\ built.op \in {"none", "generate_brief"}
    /\ txt # None
    /\ built' = build_transcript_payload_main(txt)
    /\ UNCHANGED <<json, txt>>
    /\ UNCHANGED feedVars

NextTranscript ==
    \/ \E brief \in Briefs : GenerateBrief(brief)
    \/ BuildTranscriptPayload

SpecTranscript == InitTranscript /\ [][NextTranscript]_vars

\* ------------------------------------ the transcripts of the format read
\* sentences the body of a transcript is built from
MaxBodySentences == 2

\* the sentences of a body: "Acme ships.", "See [2]!", "R&D [1] up [1]." and
\* "Ok?"
BodySentences ==
    {<<"A", "c", "m", "e", " ", "s", "h", "i", "p", "s", ".">>,
     <<"S", "e", "e", " ", "[", "2", "]", "!">>,
     <<"R", "&", "D", " ", "[", "1", "]", " ", "u", "p", " ", "[", "1", "]", ".">>,
     <<"O", "k", "?">>}

RECURSIVE BodyFrom(_, _, _)
BodyFrom(k, sents, seps) ==
    IF k > Len(sents) THEN <<>>
    ELSE sents[k]
         \o (IF k < Len(sents) THEN seps[k] ELSE <<>>)
         \o BodyFrom(k + 1, sents, seps)

\* the bodies: up to MaxBodySentences sentences, a space or a blank line
\* between two of them
Bodies ==
    UNION {{BodyFrom(1, sents, seps) :
              sents \in [1..n -> BodySentences],
              seps \in [1..(n - 1) -> {<<" ">>, <<"\n", "\n">>}]} :
           n \in 0..MaxBodySentences}

\* the source lines under the body: "[1] Acme: news --- u" and
\* "[2] Rain-fall --- v", either, both, or none
SourceBlocks ==
    LET s1 == <<"[", "1", "]", " ", "A", "c", "m", "e", ":", " ",
                "n", "e", "w", "s", " ", "-", "-", "-", " ", "u">>
        s2 == <<"[", "2", "]", " ", "R", "a", "i", "n", "-", "f", "a", "l", "l",
                " ", "-", "-", "-", " ", "v">>
    IN  {<<>>, <<s1>>, <<s2>>, <<s1, s2>>, <<s2, s1>>}

\* <spoken text>\n---\nSources:\n[n] Title --- URL
TranscriptFiles ==
    {Join(<<body, <<"-", "-", "-">>, SOURCES_HEAD>> \o lines, <<"\n">>) :
        body \in Bodies, lines \in SourceBlocks}

InitPayload ==
    /\ FeedIdle
    /\ json = NoJson
    /\ built = NotBuilt
    /\ txt \in TranscriptFiles

NextPayload == BuildTranscriptPayload

SpecPayload == InitPayload /\ [][NextPayload]_vars

\* ------------------------------------------------------------------ claims
Items == feed.items

Guids(items) == {items[i].guid : i \in 1..Len(items)}

\* the guid an MP3 name gives, as it reads back from the feed file
GuidOfMp3(mp3) == XmlText(RemoveMp3(mp3))

\* the date stamp of a guid of the form ai_news_YYYYMMDD, else None
GuidStamp(g) ==
    IF /\ g # None
       /\ Len(g) = Len(AI_NEWS) + 8
       /\ StartsWith(g, AI_NEWS)
       /\ AllDigits(SubSeq(g, Len(AI_NEWS) + 1, Len(g)))
    THEN SubSeq(g, Len(AI_NEWS) + 1, Len(g))
    ELSE None

ValidGuid(g) == GuidStamp(g) # None /\ Strptime(GuidStamp(g)).ok

GuidDate(g) ==
    LET d == Strptime(GuidStamp(g)) IN d.y * 10000 + d.m * 100 + d.d

\* a step that is a run of update_feed / of nudge_feed
UpdateStep == last'.op = "update_feed" /\ runs' = runs + 1

NudgeStep == last'.op = "nudge_feed" /\ runs' = runs + 1

\* the wall clock of the last run
LastRunClock == runs - 1

\* the position after a step of the item that was at position i before it
\* (update_feed inserts in front)
Moved(i) == i + Len(feed'.items) - Len(feed.items)

\* C1: after any sequence of update_feed runs no two items of the channel
\* have the same guid.
C1_NoDuplicateGuid ==
    \A i, j \in 1..Len(Items) : i # j => Items[i].guid # Items[j].guid

\* C2: a second run of update_feed right after a run with the same stamp and
\* the same MP3 leaves the item count as it was, and the episode's pubDate,
\* guid and enclosure as they were.
C2_SecondRunIdempotent ==
    [][ ( /\ last.op = "update_feed" /\ last.exit = 0
          /\ UpdateStep
          /\ last'.stamp = last.stamp /\ last'.mp3 = last.mp3 )
        => /\ Len(feed'.items) = Len(feed.items)
           /\ \A i \in 1..Len(feed.items) :
                feed.items[i].guid = GuidOfMp3(last.mp3)
                => /\ feed'.items[i].guid = feed.items[i].guid
                   /\ feed'.items[i].pubDate = feed.items[i].pubDate
                   /\ feed'.items[i].url = feed.items[i].url
                   /\ feed'.items[i].length = feed.items[i].length
                   /\ feed'.items[i].type = feed.items[i].type ]_vars

\* C3: a run of update_feed for an episode whose guid is not in the feed puts
\* the new item first and leaves the existing items, all their fields and
\* their order, as they were.
C3_NewItemFirstOthersKept ==
    [][ ( /\ UpdateStep /\ last'.exit = 0
          /\ GuidOfMp3(last'.mp3) \notin Guids(feed.items) )
        => /\ Len(feed'.items) = Len(feed.items) + 1
           /\ feed'.items[1].guid = GuidOfMp3(last'.mp3)
           /\ Tail(feed'.items) = feed.items ]_vars

\* C3 witness: B was inserted in front of an existing, different A
C3_Witness ==
    /\ last.op = "update_feed" /\ last.appended
    /\ Len(Items) >= 2
    /\ Items[1].guid = GuidOfMp3(last.mp3)
    /\ Items[2].guid # Items[1].guid

\* C4 (as claimed): a run of update_feed for an episode whose guid is in the
\* feed replaces the existing item, at its position, by the freshly
\* constructed item.
C4_ReplacedInPlace ==
    [][ ( /\ UpdateStep /\ last'.exit = 0
          /\ RemoveMp3(last'.mp3) \in ExistingGuids(feed) )
        => /\ Len(feed'.items) = Len(feed.items)
           /\ \A i \in 1..Len(feed.items) :
                feed.items[i].guid = RemoveMp3(last'.mp3)
                => feed'.items[i] =
                     NewItem(last'.stamp, last'.mp3, audio[last'.mp3].size, now) ]_vars

\* C4 (amended): a run of update_feed for an episode whose guid the updater
\* finds in the feed leaves every item as it was, position and fields, and
\* only sets lastBuildDate to the current time.
C4_ExistingItemKept ==
    [][ ( /\ UpdateStep /\ last'.exit = 0
          /\ RemoveMp3(last'.mp3) \in ExistingGuids(feed) )
        => /\ feed'.items = feed.items
           /\ feed'.lastBuildDate = rfc2822_now_gmt(now) ]_vars

\* C4 witness: after a skipping run the item still carries an enclosure
\* length that is not the size of the MP3
C4_Witness ==
    /\ last.op = "update_feed" /\ last.exit = 0 /\ ~last.appended
    /\ \E i \in 1..Len(Items) :
         /\ Items[i].guid = RemoveMp3(last.mp3)
         /\ Items[i].length # StrOfNat(audio[last.mp3].size)

\* C5 (as claimed): no run of update_feed or nudge_feed changes the pubDate
\* of an item that is in the feed.
C5_PubDateNeverChanges ==
    [][ (UpdateStep \/ NudgeStep)
        => \A i \in 1..Len(feed.items) :
             feed'.items[Moved(i)].pubDate = feed.items[i].pubDate ]_vars

\* C5 (amended): no run of update_feed changes the pubDate of an item that
\* is in the feed; a run of nudge_feed sets the pubDate of the first item to
\* the current time and changes no other item's pubDate.
C5_PubDateChangedOnlyByNudge ==
    [][ /\ UpdateStep
           => \A i \in 1..Len(feed.items) :
                feed'.items[Moved(i)].pubDate = feed.items[i].pubDate
        /\ NudgeStep
           => /\ Len(feed'.items) = Len(feed.items)
              /\ \A i \in 2..Len(feed.items) :
                   feed'.items[i].pubDate = feed.items[i].pubDate
              /\ Len(feed.items) >= 1
                   => feed'.items[1].pubDate = httpdate(now) ]_vars

\* C5 witness: nudge_feed ran on a feed of two items and the first item,
\* created for stamp 20250102, carries the wall-clock time of that run
C5_Witness ==
    /\ last.op = "nudge_feed"
    /\ Len(Items) >= 2
    /\ Items[1].title = nice_title_from_stamp(Stamp0102)
    /\ Items[1].pubDate = httpdate(LastRunClock)
    /\ Items[1].pubDate # pretty_pubdate_from_stamp(Stamp0102, LastRunClock)
    /\ Items[2].pubDate # httpdate(LastRunClock)

\* C6: the pubDate of an item update_feed creates is midnight of the date
\* stamp in the item's own guid.
C6_PubDateFromGuidStamp ==
    ( /\ last.op = "update_feed" /\ last.appended
      /\ ValidGuid(Items[1].guid) )
    => Items[1].pubDate =
         pretty_pubdate_from_stamp(GuidStamp(Items[1].guid), LastRunClock)

\* C7: a run of update_feed that finds no MP3, or an MP3 of zero bytes,
\* exits non-zero and leaves feed.xml as it was (not created, not rewritten).
C7_BadAudioLeavesFeed ==
    [][ ( /\ UpdateStep
          /\ (last'.mp3 = None \/ audio[last'.mp3].size = 0) )
        => /\ last'.exit # 0
           /\ feedExists' = feedExists
           /\ feed' = feed ]_vars

\* C8: a run of update_feed whose guid is not ai_news_YYYYMMDD with a valid
\* date exits non-zero, and no item of the feed has a guid of another form.
C8_OnlyDatedGuids ==
    /\ ( /\ last.op = "update_feed" /\ last.mp3 # None
         /\ ~ValidGuid(GuidOfMp3(last.mp3)) )
       => last.exit # 0
    /\ \A i \in 1..Len(Items) : ValidGuid(Items[i].guid)

\* C9: every guid in the feed before a run of update_feed is in the feed
\* after it.
C9_NoGuidRemoved ==
    [][ UpdateStep => Guids(feed.items) \subseteq Guids(feed'.items) ]_vars

\* C9 witness: update_feed ran on a feed that already held an item
C9_Witness ==
    /\ last.op = "update_feed" /\ last.exit = 0
    /\ Len(Items) >= 2
    /\ Len(inserted) = Len(Items)

\* C10 (as claimed): the date stamps of the guids are strictly descending
\* from the first item to the last.
C10_StampsDescending ==
    \A i, j \in 1..Len(Items) :
      (i < j /\ ValidGuid(Items[i].guid) /\ ValidGuid(Items[j].guid))
      => GuidDate(Items[i].guid) > GuidDate(Items[j].guid)

\* the reverse of a sequence
Reverse(q) == [i \in 1..Len(q) |-> q[Len(q) + 1 - i]]

\* C10 (amended): starting from an empty feed, the items are in the reverse
\* of the order in which update_feed inserted them (latest inserted first),
\* whatever their date stamps.
C10_LatestInsertedFirst ==
    [i \in 1..Len(Items) |-> Items[i].guid] = Reverse(inserted)

\* C10 witness: an older episode was upserted after a newer one and stands
\* before it
C10_Witness ==
    /\ Len(Items) >= 2
    /\ ValidGuid(Items[1].guid) /\ ValidGuid(Items[2].guid)
    /\ GuidDate(Items[1].guid) < GuidDate(Items[2].guid)

\* ------------------------------------------- claims on the transcripts
\* compose_transcript.py has run
Composed == built.op = "compose_transcript"

\* compose_transcript.py has run and normalize_from_json returned
Normalized == Composed /\ json.top # "nofile" /\ ~built.norm.raised

\* the paragraphs of a document, as <<section index, paragraph index>>
ParaIndex(sections) ==
    UNION {{<<i, j>> : j \in 1..Len(sections[i].paragraphs)} :
             i \in 1..Len(sections)}

\* empty or white space only
IsBlankText(t) == \A i \in 1..Len(t) : IsSpace(t[i])

Range(q) == {q[i] : i \in 1..Len(q)}

\* C11: normalize_from_json never raises: whatever the JSON file holds, it
\* returns a document.
C11_NormalizeNeverRaises ==
    (Composed /\ json.top # "nofile") => ~built.norm.raised

\* C12: in the document compose_transcript builds, from the JSON sections,
\* from the 'spoken' text or from the transcript file, no paragraph has a
\* text that is empty or white space only.
C12_NoEmptyParagraph ==
    Composed =>
        \A x \in ParaIndex(built.sections) :
            ~IsBlankText(built.sections[x[1]].paragraphs[x[2]].text)

\* the JSON file holds a paragraph of white space only, none of its
\* paragraphs is kept, and the document is built from the blocks of the
\* transcript file
C12_Witness ==
    /\ Composed
    /\ built.exit = 0
    /\ \E x \in ParaIndex(json.sections) :
          LET p == json.sections[x[1]].paragraphs[x[2]]
          IN  p.kind = "str" /\ IsBlankText(p.text.s)
    /\ ~has_paras(built.norm)
    /\ txt # None
    /\ Len(built.paras) = 3
    /\ ParaIndex(built.sections) # {}

\* C13: every citation id of a normalized paragraph is the id of a footnote
\* of the normalized footnote table.
C13_CitationsResolve ==
    Normalized =>
        \A x \in ParaIndex(built.norm.sections) :
            \A c \in Range(built.norm.sections[x[1]].paragraphs[x[2]].sources) :
                \E i \in 1..Len(built.norm.footnotes) : built.norm.footnotes[i].id = c

\* C14: in the normalized footnote table every id is a positive integer, no
\* two footnotes share an id, and every footnote has a url that is not empty.
C14_FootnoteTableWellFormed ==
    Normalized =>
        LET f == built.norm.footnotes
        IN  /\ \A i \in 1..Len(f) : f[i].id > 0 /\ f[i].url # <<>>
            /\ \A i, j \in 1..Len(f) : i # j => f[i].id # f[j].id

\* nothing to build a paragraph from: no normalized section has a
\* paragraph, 'spoken' is empty, and the transcript is absent or blank
NothingToCompose ==
    /\ Normalized
    /\ ~has_paras(built.norm)
    /\ built.norm.spoken = <<>>
    /\ (txt = None \/ IsBlankText(txt))

\* C15: with no usable section paragraph, no 'spoken' text and no transcript
\* text the run does not fail and its document has zero sections.
C15_EmptyDocumentHasNoSection ==
    NothingToCompose => built.exit = 0 /\ built.sections = <<>>

\* C15 as the code has it: with no usable section paragraph, no 'spoken'
\* text and no transcript text the run does not fail and its document has
\* the five standard headings in their order, each without a paragraph.
C15_EmptyDocumentHasFiveHeadings ==
    NothingToCompose =>
        /\ built.exit = 0
        /\ Len(built.sections) = Len(HEADINGS)
        /\ \A k \in 1..Len(HEADINGS) :
              /\ built.sections[k].title = HEADINGS[k]
              /\ built.sections[k].paragraphs = <<>>

\* the JSON file has sections, but none with a paragraph that is kept, and
\* the transcript file is blank
C15_Witness ==
    /\ NothingToCompose
    /\ json.sections # <<>>
    /\ txt # None
    /\ txt # <<>>

\* a paragraph entry of the shape {sentences:[...]}
SentenceParagraphs ==
    {x \in ParaIndex(json.sections) :
        json.sections[x[1]].paragraphs[x[2]].sentences # <<>>}

\* C18: a paragraph entry {sentences:[...]} is normalized to one paragraph:
\* its text is the sentence texts joined by one space, its citations are
\* the union of the sentences' citation ids.
C18_SentenceParagraphKept ==
    Normalized =>
        \A x \in SentenceParagraphs :
            LET s == json.sections[x[1]].paragraphs[x[2]].sentences
            IN  \E y \in ParaIndex(built.norm.sections) :
                  LET q == built.norm.sections[y[1]].paragraphs[y[2]]
                  IN  /\ q.text = Join([k \in 1..Len(s) |-> s[k].text], <<" ">>)
                      /\ Range(q.sources) = UNION {Range(s[k].sources) : k \in 1..Len(s)}

\* C20: the paragraphs come from one producer, by priority: the normalized
\* JSON sections when one of them has a paragraph; else the 'spoken' text
\* when it is not empty; else the transcript file.
C20_ProducerPriority ==
    (Composed /\ built.exit = 0) =>
        IF has_paras(built.norm)
        THEN built.sections = built.norm.sections
        ELSE /\ built.sections = distribute_across_headings(built.paras)
             /\ built.paras =
                  IF built.norm.spoken # <<>>
                  THEN paragraphs_from_free_text(built.norm.spoken)
                  ELSE IF txt # None THEN paragraphs_from_free_text(txt)
                  ELSE <<>>

\* no JSON paragraph, a 'spoken' text and a transcript file with text of
\* its own: the paragraphs are those of 'spoken'
C20_Witness ==
    /\ Composed
    /\ built.exit = 0
    /\ ~has_paras(built.norm)
    /\ built.norm.spoken # <<>>
    /\ txt # None
    /\ paragraphs_from_free_text(txt) # <<>>
    /\ paragraphs_from_free_text(txt) # built.paras
    /\ built.paras # <<>>

\* paragraphs_from_free_text has been applied to txt
Split == built.op = "paragraphs_from_free_text"

\* the blank-line-delimited blocks of the text
TextBlocks == Blocks(CleanFreeText(txt))

\* the sentences of the text, as the script's splitter cuts them
TextSentences == Sentences(CleanFreeText(txt))

\* paras are the sentences in their order, four to a paragraph joined by
\* one space, the last paragraph holding the one to four that remain
GroupedInFours(sents, paras) ==
    /\ Len(paras) = (Len(sents) + 3) \div 4
    /\ \A j \in 1..Len(paras) :
          LET last4 == IF 4 * j <= Len(sents) THEN 4 * j ELSE Len(sents)
          IN  paras[j] = Join(SubSeq(sents, 4 * j - 3, last4), <<" ">>)

NoBlankLine(s) ==
    ~\E i, j \in 1..Len(s) :
        /\ i < j
        /\ s[i] = "\n"
        /\ s[j] = "\n"
        /\ \A k \in (i + 1)..(j - 1) : IsSpace(s[k])

WrittenSources ==
    {<<json.footnotes[i].id.n, OrStrip(json.footnotes[i].url).s>> :
        i \in {k \in 1..Len(json.footnotes) :
                 /\ SourceLine(json.footnotes[k]) # <<>>
                 /\ json.footnotes[k].id.t = "int"
                 /\ json.footnotes[k].id.n >= 0}}

\* C19: load_and_split accepts every transcript generate_brief writes: it
\* does not raise when there is no Sources block, and every source line
\* '[id] title - url' or '[id] url' comes back as a source with that id
\* and url.
C19_TranscriptAccepted ==
    built.op = "load_and_split" =>
        /\ built.exit = 0
        /\ \A w \in WrittenSources :
              \E i \in 1..Len(built.sources) :
                  built.sources[i].id = w[1] /\ built.sources[i].url = w[2]

\* a footnote entry of the JSON file that has a url: a dict whose "url" is
\* text with more than white space
HasUrl(f) == f.dict /\ f.url.t = "str" /\ ~IsBlankText(f.url.s)

\* C21: the normalized footnote table holds the entries that have a url, in
\* source order, and no other; an entry whose "id" is an integer keeps it,
\* and an entry without an integer "id" gets its position in the source
\* list, counted from 1 over all entries.
C21_FootnoteIdByPosition ==
    Normalized =>
        LET src == json.footnotes
            out == built.norm.footnotes
            K   == {i \in 1..Len(src) : HasUrl(src[i])}
        IN  /\ Len(out) = Cardinality(K)
            /\ \A i \in K :
                  LET fn == out[Cardinality({j \in K : j <= i})]
                  IN  /\ ~fn.idIsBool
                      /\ fn.id = IF src[i].id.t = "int" THEN src[i].id.n ELSE i

\* distribute_across_headings has been applied to the paragraphs of txt
Distributed == built.op = "distribute_across_headings"

\* the paragraph texts of a document as a reader meets them: section after
\* section, and in a section paragraph after paragraph
RECURSIVE ReadingOrder(_)
ReadingOrder(sections) ==
    IF sections = <<>> THEN <<>>
    ELSE [j \in 1..Len(sections[1].paragraphs) |-> sections[1].paragraphs[j].text]
         \o ReadingOrder(Tail(sections))

\* C23: the five sections of the free-text fallback, read in order, give the
\* paragraphs in their original order, each once, however many there are.
C23_ReadingOrderKept ==
    Distributed => ReadingOrder(built.sections) = built.paras

\* a renderer pair has run: that of compose_transcript.py on the document,
\* or that of build_transcript_payload.py on the transcript
Rendered == built.op \in {"compose_transcript", "load_and_split"} /\ built.exit = 0

\* the citation ids a paragraph of the document carries: the "sources" of a
\* paragraph of the sections, the [n] markers of a paragraph of a transcript
RECURSIVE CarriedBySections(_)
CarriedBySections(sections) ==
    IF sections = <<>> THEN <<>>
    ELSE [j \in 1..Len(sections[1].paragraphs) |->
             Range(sections[1].paragraphs[j].sources)]
         \o CarriedBySections(Tail(sections))

CarriedIds ==
    IF built.op = "compose_transcript" THEN CarriedBySections(built.sections)
    ELSE [j \in 1..Len(built.paras) |-> Range(Markers(built.paras[j], 1))]

\* the paragraphs a renderer emitted, in order
EmittedParagraphs(out) == SelectSeq(out, LAMBDA b : b.kind = "p")

\* the citation ids a rendered paragraph shows: the numbers in its
\* superscripts
ShownIds(block) ==
    UNION {LET t == block.runs[k].text
           IN  {NumVal(d) : d \in Runs(t, [i \in 1..Len(t) |-> IsDigit(t[i])])} :
             k \in {i \in 1..Len(block.runs) : block.runs[i].sup}}

\* C22: the HTML and the DOCX renderer emit one paragraph per paragraph of
\* the document, in its order, and a rendered paragraph shows the citation
\* ids that paragraph carries, no more and no fewer.
C22_RenderedAsCarried ==
    Rendered =>
        \A out \in {built.html, built.docx} :
            LET ps == EmittedParagraphs(out)
            IN  /\ Len(ps) = Len(CarriedIds)
                /\ \A j \in 1..Len(ps) : ShownIds(ps[j]) = CarriedIds[j]

\* both runs have finished, each with a write
BothWrote == \A r \in Racers : race.run[r].pc = "done" /\ race.run[r].wrote > 0

\* the guid of the episode of run r
RaceGuid(r) == GuidOfMp3(race.run[r].mp3)

\* the two runs are for two different guids, each new to the feed the run
\* parsed
TwoNewGuids ==
    /\ RaceGuid(1) # RaceGuid(2)
    /\ \A r \in Racers : RaceGuid(r) \notin Guids(race.run[r].tree.items)

\* both runs parsed the feed before either wrote it
BothParsedFirst ==
    /\ race.run[1].parsed < race.run[2].wrote
    /\ race.run[2].parsed < race.run[1].wrote

\* one run wrote the feed before the other parsed it
OneAfterTheOther ==
    \/ race.run[1].wrote < race.run[2].parsed
    \/ race.run[2].wrote < race.run[1].parsed

\* one run had finished before the other started
Serialized ==
    \/ race.run[1].wrote < race.run[2].started
    \/ race.run[2].wrote < race.run[1].started

\* the run that wrote last, and the other one
LastWriter == CHOOSE r \in Racers : \A q \in Racers : race.run[q].wrote <= race.run[r].wrote

FirstWriter == CHOOSE r \in Racers : r # LastWriter

\* C24: update_feed takes no lock.  When two runs for two different new
\* guids both parse the feed before either writes it, the feed holds in the
\* end the items the last writer parsed with its new item in front, and the
\* episode of the other run is lost; the feed holds both episodes only when
\* one run wrote before the other parsed, and it does hold both when one
\* run finished before the other started.
C24_LostUpdate ==
    (BothWrote /\ TwoNewGuids) =>
        /\ BothParsedFirst =>
              /\ feed.items[1].guid = RaceGuid(LastWriter)
              /\ Tail(feed.items) = race.run[LastWriter].tree.items
              /\ RaceGuid(FirstWriter) \notin Guids(feed.items)
        /\ ({RaceGuid(1), RaceGuid(2)} \subseteq Guids(feed.items)) => OneAfterTheOther
        /\ Serialized => {RaceGuid(1), RaceGuid(2)} \subseteq Guids(feed.items)

\* two runs for two different new guids overlapped, on a feed that had an
\* item, and the first writer's episode is not in the feed
C24_Witness ==
    /\ BothWrote
    /\ TwoNewGuids
    /\ BothParsedFirst
    /\ Len(feed.items) = 2
    /\ RaceGuid(FirstWriter) \notin Guids(feed.items)

====
